---------------------------- MODULE Spec2Model ----------------------------
(***************************************************************************)
(* A model of the nullslate scaffolding CLI: the skip-rule resolver, the   *)
(* template materializer (copy_template, copy_filtered, the copy loop of   *)
(* the legacy main), the token substitution and the manifest editors, the  *)
(* layout cleanup and the secrets file, the pipelines scaffold_fullstack   *)
(* and main with init_git and install_deps, and detect_project.            *)
(*                                                                         *)
(* Representation.                                                         *)
(*   - A Rust path or rule string is a TLA+ string; SubSeq, Len and \o act *)
(*     on it character by character.                                       *)
(*   - A file's content, and every Rust String read from or written to a   *)
(*     file, is a sequence of bytes.  A byte is a string: one character    *)
(*     for an ASCII byte, two hexadecimal digits for a byte >= 0x80.       *)
(*   - A JSON value is a record with a field "t" (null, str, obj); an      *)
(*     object carries its members as a function from keys to values.       *)
(***************************************************************************)
EXTENDS Integers, Sequences, FiniteSets, TLC

VARIABLES
    call,       \* the pure function last called, with its arguments
    ret,        \* what that call returned
    tree,       \* the source tree (for detect_project, the file system): path -> entry
    out,        \* the destination tree: relative path -> entry
    copy,       \* the last materialization: loop, rules, name, order, result
    pkg,        \* the content of package.json before the last manifest edit
    pkgOut,     \* the content of package.json after it
    edit,       \* the last manifest edit: editor, toggles, result
    run         \* a run of a pipeline: arguments, next step, steps taken, result

vars == <<call, ret, tree, out, copy, pkg, pkgOut, edit, run>>

---------------------------------------------------------------------------
(* Bounds of the model.                                                    *)

\* longest path / rule enumerated over PathChars for should_skip_file
MaxPathLen == 3
\* longest rule list handed to should_skip_file
MaxRules == 2
\* number of fragments a text handed to process_template is built from
MaxPieces == 3
\* longest rule list handed to a materialization loop
MaxCopyRules == 1
\* the environment may fail the n-th mutation of a loop, n up to MaxFaultAt + 1
MaxFaultAt == 3
\* number of fragments a layout handed to cleanup_layout_for_no_auth is built from
MaxLayoutLines == 3
\* how many times in a row an editor is run on the same package.json
MaxRuns == 2
\* the environment may fail the n-th mutation of a step or of an enumerated
\* copy, n up to MaxStepFaultAt + 1
MaxStepFaultAt == 1

---------------------------------------------------------------------------
(* Strings.                                                                *)

\* str::starts_with: pat is a raw character prefix of s.
starts_with(s, pat) ==
    /\ Len(pat) <= Len(s)
    /\ SubSeq(s, 1, Len(pat)) = pat

\* str::as_bytes for an ASCII string: one byte per character.
as_bytes(s) == [i \in 1..Len(s) |-> SubSeq(s, i, i)]

\* str::replace: every non-overlapping match of from, found scanning left to
\* right, is replaced by to; the scan resumes after the match, never inside
\* the text it has just inserted.
RECURSIVE str_replace(_, _, _)
str_replace(s, from, to) ==
    LET matches == {i \in 1..(Len(s) - Len(from) + 1) :
                       SubSeq(s, i, i + Len(from) - 1) = from}
    IN  IF matches = {} THEN s
        ELSE LET first == CHOOSE i \in matches : \A j \in matches : i <= j
             IN  SubSeq(s, 1, first - 1) \o to
                   \o str_replace(SubSeq(s, first + Len(from), Len(s)), from, to)

\* The number of positions of s at which pat occurs.
Occurrences(s, pat) ==
    Cardinality({i \in 1..Len(s) : starts_with(SubSeq(s, i, Len(s)), pat)})

\* All strings over the characters cs of length at most n.
RECURSIVE StringsUpTo(_, _)
StringsUpTo(cs, n) ==
    IF n = 0 THEN {""}
    ELSE LET shorter == StringsUpTo(cs, n - 1)
         IN  shorter \cup {s \o c : s \in shorter, c \in cs}

\* All sequences over S of length at most n.
RECURSIVE SeqsUpTo(_, _)
SeqsUpTo(S, n) ==
    IF n = 0 THEN {<<>>}
    ELSE LET shorter == SeqsUpTo(S, n - 1)
         IN  shorter \cup {Append(q, x) : q \in shorter, x \in S}

---------------------------------------------------------------------------
(* features.rs: the skip-set resolver.                                     *)

\* A variant of should_skip_file that matches on path segments.
RECURSIVE should_skip_file_segments(_, _)
should_skip_file_segments(path, skip_patterns) ==
    IF skip_patterns = <<>> THEN FALSE
    ELSE IF starts_with(path, Head(skip_patterns) \o "/") \/ path = Head(skip_patterns)
         THEN TRUE
         ELSE should_skip_file_segments(path, Tail(skip_patterns))

\* for pattern in skip_patterns { if path.starts_with(pattern) || path == *pattern
\* { return true } } false
RECURSIVE should_skip_file(_, _)
should_skip_file(path, skip_patterns) ==
    IF skip_patterns = <<>> THEN FALSE
    ELSE IF starts_with(path, Head(skip_patterns)) \/ path = Head(skip_patterns)
         THEN TRUE
         ELSE should_skip_file(path, Tail(skip_patterns))

\* Vec::push
push(v, x) == Append(v, x)

\* A variant of get_files_to_skip whose toggles are read the wrong way round.
get_files_to_skip_inverted(include_docs, include_auth, include_db) ==
    LET s1 == IF include_docs THEN <<"src/routes/docs">> ELSE <<>>
        s2 == IF include_auth THEN push(s1, "src/lib/auth.ts") ELSE s1
    IN  IF include_db THEN push(s2, "src/lib/db.ts") ELSE s2

get_files_to_skip(include_docs, include_auth, include_db) ==
    LET s0 == <<>>
        s1 == IF ~include_docs
              THEN push(push(push(push(push(push(push(s0,
                       "src/routes/docs"),
                       "content/docs"),
                       "src/lib/docs.ts"),
                       "src/lib/docs.test.ts"),
                       "src/lib/mdx-components.tsx"),
                       "src/components/docs-sidebar.tsx"),
                       "src/components/copyable-pre.tsx")
              ELSE s0
        s2 == IF ~include_auth
              THEN push(push(push(s1,
                       "src/lib/auth.ts"),
                       "api/auth"),
                       "src/components/session-provider.tsx")
              ELSE s1
        s3 == IF ~include_db THEN push(s2, "src/lib/db.ts") ELSE s2
    IN  s3

\* A variant of get_lib_files_to_skip that drops tsconfig.json for every
\* language but typescript.
get_lib_files_to_skip_not_ts(lang, include_react, include_css, include_testing) ==
    LET s1 == IF lang # "typescript" THEN <<"tsconfig.json">> ELSE <<>>
        s2 == IF ~include_react THEN push(s1, "src/components") ELSE s1
        s3 == IF ~include_css THEN push(s2, "src/styles") ELSE s2
    IN  IF ~include_testing
        THEN push(push(s3, "vitest.config.ts"), "src/__tests__")
        ELSE s3

get_lib_files_to_skip(lang, include_react, include_css, include_testing) ==
    LET s0 == <<>>
        s1 == IF lang = "javascript" THEN push(s0, "tsconfig.json") ELSE s0
        s2 == IF ~include_react THEN push(s1, "src/components") ELSE s1
        s3 == IF ~include_css THEN push(s2, "src/styles") ELSE s2
        s4 == IF ~include_testing
              THEN push(push(s3, "vitest.config.ts"), "src/__tests__")
              ELSE s3
    IN  s4

---------------------------------------------------------------------------
(* template.rs: the token substitution.                                    *)

Token == as_bytes("{{project_name}}")

\* A variant of process_template that replaces the first occurrence only.
process_template_first(content, project_name) ==
    LET hits == {i \in 1..Len(content) :
                    starts_with(SubSeq(content, i, Len(content)), Token)}
    IN  IF hits = {} THEN content
        ELSE LET i == CHOOSE k \in hits : \A j \in hits : k <= j
             IN  SubSeq(content, 1, i - 1) \o project_name
                   \o SubSeq(content, i + Len(Token), Len(content))

process_template(content, project_name) ==
    str_replace(content, Token, project_name)

\* main.rs: the naming pattern ^[a-z0-9][a-z0-9-]*[a-z0-9]$|^[a-z0-9]$
LowerOrDigit ==
    {"a", "b", "c", "d", "e", "f", "g", "h", "i", "j", "k", "l", "m",
     "n", "o", "p", "q", "r", "s", "t", "u", "v", "w", "x", "y", "z",
     "0", "1", "2", "3", "4", "5", "6", "7", "8", "9"}

name_regex_is_match(name) ==
    \/ /\ Len(name) >= 2
       /\ SubSeq(name, 1, 1) \in LowerOrDigit
       /\ \A i \in 2..(Len(name) - 1) : SubSeq(name, i, i) \in LowerOrDigit \cup {"-"}
       /\ SubSeq(name, Len(name), Len(name)) \in LowerOrDigit
    \/ /\ Len(name) = 1
       /\ name \in LowerOrDigit

---------------------------------------------------------------------------
(* main.rs: the legacy copies of the resolver and of the substitution.     *)

main_get_files_to_skip(include_docs, include_auth, include_db) ==
    LET s0 == <<>>
        s1 == IF ~include_docs
              THEN push(push(push(s0, "app/docs"), "content/docs"), "lib/docs.ts")
              ELSE s0
        s2 == IF ~include_auth
              THEN push(push(push(push(push(s1,
                       "auth.ts"),
                       "auth.config.ts"),
                       "app/api/auth"),
                       "components/session-provider.tsx"),
                       "types/next-auth.d.ts")
              ELSE s1
        s3 == IF ~include_db THEN push(s2, "lib/db.ts") ELSE s2
    IN  s3

RECURSIVE main_should_skip_file(_, _)
main_should_skip_file(path, skip_patterns) ==
    IF skip_patterns = <<>> THEN FALSE
    ELSE IF starts_with(path, Head(skip_patterns)) \/ path = Head(skip_patterns)
         THEN TRUE
         ELSE main_should_skip_file(path, Tail(skip_patterns))

main_process_template(content, project_name) ==
    str_replace(content, Token, project_name)

---------------------------------------------------------------------------
(* The file system: a tree is a function from relative paths to entries;   *)
(* the path "" is the root directory itself.                               *)

Dir == [dir |-> TRUE, bytes |-> <<>>]
File(bytes) == [dir |-> FALSE, bytes |-> bytes]

\* The positions of the separators of a path.
Slashes(p) == {i \in 1..Len(p) : SubSeq(p, i, i) = "/"}

\* Path::parent: the path without its last component ("" for one component).
Parent(p) ==
    IF Slashes(p) = {} THEN ""
    ELSE LET last == CHOOSE i \in Slashes(p) : \A j \in Slashes(p) : j <= i
         IN  SubSeq(p, 1, last - 1)

\* The root and every directory on the way down to p, p excluded.
Ancestors(p) == {""} \cup {SubSeq(p, 1, i - 1) : i \in Slashes(p)}

Exists(fs, p) == p \in DOMAIN fs
IsDir(fs, p) == Exists(fs, p) /\ fs[p].dir
IsFile(fs, p) == Exists(fs, p) /\ ~fs[p].dir

\* The result of a file system operation: the tree it leaves, and whether
\* it failed.  budget counts the mutations the environment still lets
\* succeed (disk full, permission denied); NoFault lets all of them succeed.
NoFault == -1
Ok(fs, budget) == [fs |-> fs, err |-> FALSE, budget |-> budget]
Err(fs, budget) == [fs |-> fs, err |-> TRUE, budget |-> budget]
Spend(budget) == IF budget = NoFault THEN NoFault ELSE budget - 1

\* fs::create_dir_all: creates p and every missing ancestor; succeeds when
\* they all exist as directories already, fails when one of them is a file.
create_dir_all(fs, budget, p) ==
    LET chain == Ancestors(p) \cup {p}
        missing == {q \in chain : ~Exists(fs, q)}
    IN  IF \E q \in chain : IsFile(fs, q) THEN Err(fs, budget)
        ELSE IF missing = {} THEN Ok(fs, budget)
        ELSE IF budget = 0 THEN Err(fs, budget)
        ELSE Ok([q \in DOMAIN fs \cup missing |->
                    IF q \in missing THEN Dir ELSE fs[q]], Spend(budget))

\* fs::write: creates or truncates the file p; fails when its parent is not
\* a directory or p is a directory.
fs_write(fs, budget, p, bytes) ==
    IF ~IsDir(fs, Parent(p)) \/ IsDir(fs, p) \/ budget = 0 THEN Err(fs, budget)
    ELSE Ok([q \in DOMAIN fs \cup {p} |-> IF q = p THEN File(bytes) ELSE fs[q]],
            Spend(budget))

\* fs::copy: the destination receives the bytes of the source file.
fs_copy(fs, budget, bytes, p) == fs_write(fs, budget, p, bytes)

HexDigit(c) ==
    CASE c = "0" -> 0 [] c = "1" -> 1 [] c = "2" -> 2 [] c = "3" -> 3
      [] c = "4" -> 4 [] c = "5" -> 5 [] c = "6" -> 6 [] c = "7" -> 7
      [] c = "8" -> 8 [] c = "9" -> 9 [] c = "A" -> 10 [] c = "B" -> 11
      [] c = "C" -> 12 [] c = "D" -> 13 [] c = "E" -> 14 [] c = "F" -> 15

\* The value of a byte: below 128 for an ASCII character (its exact code
\* does not matter to the decoder), the hexadecimal value otherwise.
ByteValue(b) ==
    IF Len(b) = 1 THEN 0
    ELSE 16 * HexDigit(SubSeq(b, 1, 1)) + HexDigit(SubSeq(b, 2, 2))

Between(x, lo, hi) == lo <= x /\ x <= hi

\* String::from_utf8: the well-formed byte sequences of UTF-8.  A run of
\* ASCII bytes is passed over at once; the character at the first byte
\* >= 0x80 must be well formed, and so must what follows it.
RECURSIVE IsUtf8(_)
IsUtf8(bytes) ==
    LET high == {i \in 1..Len(bytes) : ByteValue(bytes[i]) >= 128}
    IN  IF high = {} THEN TRUE
        ELSE LET at == CHOOSE i \in high : \A j \in high : i <= j
                 n == Len(bytes)
                 b1 == ByteValue(bytes[at])
                 b2 == IF n >= at + 1 THEN ByteValue(bytes[at + 1]) ELSE 0
                 b3 == IF n >= at + 2 THEN ByteValue(bytes[at + 2]) ELSE 0
                 b4 == IF n >= at + 3 THEN ByteValue(bytes[at + 3]) ELSE 0
                 cont(b) == Between(b, 128, 191)
                 width ==
                     IF Between(b1, 194, 223) /\ cont(b2) THEN 2
                     ELSE IF \/ b1 = 224 /\ Between(b2, 160, 191) /\ cont(b3)
                             \/ Between(b1, 225, 236) /\ cont(b2) /\ cont(b3)
                             \/ b1 = 237 /\ Between(b2, 128, 159) /\ cont(b3)
                             \/ Between(b1, 238, 239) /\ cont(b2) /\ cont(b3)
                          THEN 3
                     ELSE IF \/ b1 = 240 /\ Between(b2, 144, 191) /\ cont(b3) /\ cont(b4)
                             \/ Between(b1, 241, 243) /\ cont(b2) /\ cont(b3) /\ cont(b4)
                             \/ b1 = 244 /\ Between(b2, 128, 143) /\ cont(b3) /\ cont(b4)
                          THEN 4
                     ELSE 0
             IN  width > 0 /\ IsUtf8(SubSeq(bytes, at + width, n))

\* fs::read_to_string: the file's bytes as a String, or an error when they
\* are not UTF-8.
read_to_string(bytes) ==
    IF IsUtf8(bytes) THEN [ok |-> TRUE, content |-> bytes]
    ELSE [ok |-> FALSE, content |-> <<>>]

\* Result::unwrap_or_default on a String: the empty string on an error.
unwrap_or_default(r) == IF r.ok THEN r.content ELSE <<>>

\* The entries directly inside directory d of tree t.
Children(t, d) == {p \in DOMAIN t : p # "" /\ Parent(p) = d}

\* WalkDir::new(root).min_depth(1): every entry below the root, a directory
\* before its content, siblings in the order the operating system lists
\* them (any order).
RECURSIVE WalkOrdersOf(_, _)
WalkOrdersOf(t, siblings) ==
    IF siblings = {} THEN {<<>>}
    ELSE UNION {{<<c>> \o below \o rest :
                    below \in WalkOrdersOf(t, Children(t, c)),
                    rest \in WalkOrdersOf(t, siblings \ {c})} : c \in siblings}

WalkOrders(t) == WalkOrdersOf(t, Children(t, ""))

---------------------------------------------------------------------------
(* template.rs, fullstack.rs, main.rs: the three materialization loops.    *)
(* Each takes the walk order and the fault budget of the environment and   *)
(* returns the destination tree with the call's result.                    *)

\* A variant of copy_file that writes without creating the parent directory.
copy_file_no_parent(st, p, bytes, project_name) ==
    LET text == read_to_string(bytes)
    IN  IF text.ok
        THEN fs_write(st.fs, st.budget, p, process_template(text.content, project_name))
        ELSE fs_copy(st.fs, st.budget, bytes, p)

\* The file branch shared by copy_template and copy_filtered: parent
\* directory, then the processed text or, for undecodable bytes, fs::copy.
copy_file(st, p, bytes, project_name) ==
    LET made == create_dir_all(st.fs, st.budget, Parent(p))
        text == read_to_string(bytes)
    IN  IF made.err THEN made
        ELSE IF text.ok
             THEN fs_write(made.fs, made.budget, p,
                           process_template(text.content, project_name))
             ELSE fs_copy(made.fs, made.budget, bytes, p)

\* One iteration of the loop of copy_template.
copy_template_entry(t, st, p, project_name, files_to_skip) ==
    IF should_skip_file(p, files_to_skip) THEN st
    ELSE IF p = "template.json" THEN st
    ELSE IF t[p].dir THEN create_dir_all(st.fs, st.budget, p)
    ELSE copy_file(st, p, t[p].bytes, project_name)

RECURSIVE copy_template_loop(_, _, _, _, _)
copy_template_loop(t, st, order, project_name, files_to_skip) ==
    IF st.err \/ order = <<>> THEN st
    ELSE copy_template_loop(
             t, copy_template_entry(t, st, Head(order), project_name, files_to_skip),
             Tail(order), project_name, files_to_skip)

copy_template(t, fs, budget, order, project_name, files_to_skip) ==
    LET made == create_dir_all(fs, budget, "")
    IN  IF made.err THEN made
        ELSE copy_template_loop(t, made, order, project_name, files_to_skip)

\* extra_skip.iter().any(|p| relative_str.starts_with(p) || relative_str == *p)
skip_extra(p, extra_skip) ==
    \E i \in 1..Len(extra_skip) : starts_with(p, extra_skip[i]) \/ p = extra_skip[i]

\* One iteration of the loop of copy_filtered.
copy_filtered_entry(t, st, p, project_name, files_to_skip, extra_skip) ==
    IF should_skip_file(p, files_to_skip) THEN st
    ELSE IF skip_extra(p, extra_skip) THEN st
    ELSE IF t[p].dir THEN create_dir_all(st.fs, st.budget, p)
    ELSE copy_file(st, p, t[p].bytes, project_name)

RECURSIVE copy_filtered_loop(_, _, _, _, _, _)
copy_filtered_loop(t, st, order, project_name, files_to_skip, extra_skip) ==
    IF st.err \/ order = <<>> THEN st
    ELSE copy_filtered_loop(
             t, copy_filtered_entry(t, st, Head(order), project_name, files_to_skip,
                                    extra_skip),
             Tail(order), project_name, files_to_skip, extra_skip)

copy_filtered(t, fs, budget, order, project_name, files_to_skip, extra_skip) ==
    LET made == create_dir_all(fs, budget, "")
    IN  IF made.err THEN made
        ELSE copy_filtered_loop(t, made, order, project_name, files_to_skip,
                                extra_skip)

\* One iteration of the copy loop of main: the content is read with
\* unwrap_or_default, processed, and written after the parent is ensured.
main_copy_entry(t, st, p, project_name, files_to_skip) ==
    IF main_should_skip_file(p, files_to_skip) THEN st
    ELSE IF p = "template.json" THEN st
    ELSE IF t[p].dir THEN create_dir_all(st.fs, st.budget, p)
    ELSE LET content == unwrap_or_default(read_to_string(t[p].bytes))
             processed == main_process_template(content, project_name)
             made == create_dir_all(st.fs, st.budget, Parent(p))
         IN  IF made.err THEN made
             ELSE fs_write(made.fs, made.budget, p, processed)

RECURSIVE main_copy_walk(_, _, _, _, _)
main_copy_walk(t, st, order, project_name, files_to_skip) ==
    IF st.err \/ order = <<>> THEN st
    ELSE main_copy_walk(
             t, main_copy_entry(t, st, Head(order), project_name, files_to_skip),
             Tail(order), project_name, files_to_skip)

\* fs::create_dir_all(&output_path) and the loop that follows it in main.
main_copy_loop(t, fs, budget, order, project_name, files_to_skip) ==
    LET made == create_dir_all(fs, budget, "")
    IN  IF made.err THEN made
        ELSE main_copy_walk(t, made, order, project_name, files_to_skip)

---------------------------------------------------------------------------
(* JSON (serde_json::Value) and the text of package.json.                  *)

Null == [t |-> "null"]
Str(x) == [t |-> "str", s |-> x]
Obj(m) == [t |-> "obj", m |-> m]
EmptyMap == <<>>

\* The text of a manifest file: well-formed text in some layout holding a
\* value, or text that is not JSON; Missing when there is no file.
Text(fmt, v) == [fmt |-> fmt, v |-> v]
Malformed == [fmt |-> "malformed"]
Missing == [fmt |-> "missing"]

\* A variant of from_str that takes a file it cannot read or parse for null.
from_str_lenient(file) ==
    IF file.fmt \in {"missing", "malformed"} THEN [ok |-> TRUE, v |-> Null]
    ELSE [ok |-> TRUE, v |-> file.v]

\* fs::read_to_string followed by serde_json::from_str.
from_str(file) ==
    IF file.fmt \in {"missing", "malformed"} THEN [ok |-> FALSE]
    ELSE [ok |-> TRUE, v |-> file.v]

\* serde_json::to_string_pretty: the value in the indented layout.
to_string_pretty(v) == Text("pretty", v)

\* value[key] in a mutable context (IndexMut for Value): null becomes an
\* empty object first, a missing key is inserted with the value null, and
\* any other kind of value panics.
index_mut(v, key) ==
    LET m == IF v.t = "null" THEN EmptyMap ELSE v.m
    IN  IF v.t \notin {"null", "obj"} THEN [panic |-> TRUE, v |-> v]
        ELSE [panic |-> FALSE,
              v |-> Obj([k \in DOMAIN m \cup {key} |->
                           IF k \in DOMAIN m THEN m[k] ELSE Null])]

\* Map::remove of each key in turn: a key that is absent is ignored.
map_remove(m, keys) == [k \in DOMAIN m \ keys |-> m[k]]

\* Map::insert of each member in turn: an existing key gets the new value.
map_insert(m, members) ==
    [k \in DOMAIN m \cup DOMAIN members |->
        IF k \in DOMAIN members THEN members[k] ELSE m[k]]

\* if let Some(section) = package[name].as_object_mut() { section.remove(k).. }
\* on the state st = [panic, v] of the edit so far.
remove_in(st, name, keys) ==
    IF st.panic THEN st
    ELSE LET at == index_mut(st.v, name)
         IN  IF at.panic THEN at
             ELSE IF at.v.m[name].t = "obj"
                  THEN [panic |-> FALSE,
                        v |-> Obj([at.v.m EXCEPT
                                     ![name] = Obj(map_remove(at.v.m[name].m, keys))])]
                  ELSE at

\* The outcome of a manifest edit: ok with the file written, err with the
\* file untouched, or a panic of the process with the file untouched.
Edited(status, file) == [status |-> status, file |-> file]

\* features.rs update_package_json
update_package_json(file, include_docs, include_auth, include_db) ==
    LET parsed == from_str(file)
        p0 == [panic |-> FALSE, v |-> parsed.v]
        p1 == IF ~include_docs
              THEN remove_in(remove_in(p0,
                       "dependencies", {"@mdx-js/react", "gray-matter"}),
                       "devDependencies",
                       {"@mdx-js/rollup", "remark-frontmatter", "remark-mdx-frontmatter"})
              ELSE p0
        p2 == IF ~include_auth
              THEN remove_in(p1, "dependencies", {"@auth/core"})
              ELSE p1
        p3 == IF ~include_db
              THEN remove_in(remove_in(p2,
                       "dependencies", {"pg"}),
                       "devDependencies", {"@types/pg"})
              ELSE p2
    IN  IF ~parsed.ok THEN Edited("err", file)
        ELSE IF p3.panic THEN Edited("panic", file)
        ELSE Edited("ok", to_string_pretty(p3.v))

\* features.rs update_lib_package_json
update_lib_package_json(file, lang, include_react, include_css, include_testing) ==
    LET parsed == from_str(file)
        p0 == [panic |-> FALSE, v |-> parsed.v]
        p1 == IF lang = "javascript"
              THEN remove_in(p0, "devDependencies", {"typescript"})
              ELSE p0
        p2 == IF ~include_react
              THEN remove_in(remove_in(p1,
                       "peerDependencies", {"react", "react-dom"}),
                       "devDependencies",
                       {"@types/react", "@types/react-dom", "react", "react-dom"})
              ELSE p1
        p3 == IF ~include_css
              THEN remove_in(remove_in(p2,
                       "dependencies", {"tailwindcss", "@tailwindcss/vite"}),
                       "devDependencies", {"tailwindcss", "@tailwindcss/vite"})
              ELSE p2
        p4 == IF ~include_testing
              THEN remove_in(remove_in(p3,
                       "devDependencies",
                       {"vitest", "@testing-library/react", "@testing-library/jest-dom",
                        "jsdom"}),
                       "scripts", {"test"})
              ELSE p3
    IN  IF ~parsed.ok THEN Edited("err", file)
        ELSE IF p4.panic THEN Edited("panic", file)
        ELSE Edited("ok", to_string_pretty(p4.v))

\* The entries the legacy editor inserts.
DocsInserts ==
    [k \in {"@thesandybridge/ui", "gray-matter"} |->
        IF k = "gray-matter" THEN Str("^4.0.3") ELSE Str("^1.0.0")]

AuthInserts ==
    [k \in {"next-auth", "@auth/core", "jose"} |->
        CASE k = "next-auth" -> Str("^5.0.0-beta.25")
          [] k = "@auth/core" -> Str("^0.37.4")
          [] k = "jose" -> Str("^6.0.11")]

DbInserts == [k \in {"pg"} |-> Str("^8.14.1")]

DbDevInserts == [k \in {"@types/pg"} |-> Str("^8.11.11")]

\* main.rs update_package_json: package["dependencies"].as_object_mut()
\* .context("Invalid package.json")? returns the error when the section is
\* not an object, and likewise for "devDependencies" when db is on.
main_update_package_json(file, include_docs, include_auth, include_db) ==
    LET parsed == from_str(file)
        at == index_mut(parsed.v, "dependencies")
        deps0 == at.v.m["dependencies"].m
        deps1 == IF include_docs THEN map_insert(deps0, DocsInserts) ELSE deps0
        deps2 == IF include_auth THEN map_insert(deps1, AuthInserts) ELSE deps1
        deps3 == IF include_db THEN map_insert(deps2, DbInserts) ELSE deps2
        v1 == Obj([at.v.m EXCEPT !["dependencies"] = Obj(deps3)])
        at2 == index_mut(v1, "devDependencies")
        v2 == Obj([at2.v.m EXCEPT !["devDependencies"] =
                      Obj(map_insert(at2.v.m["devDependencies"].m, DbDevInserts))])
    IN  IF ~parsed.ok THEN Edited("err", file)
        ELSE IF at.panic THEN Edited("panic", file)
        ELSE IF at.v.m["dependencies"].t # "obj" THEN Edited("err", file)
        ELSE IF ~include_db THEN Edited("ok", to_string_pretty(v1))
        ELSE IF at2.v.m["devDependencies"].t # "obj" THEN Edited("err", file)
        ELSE Edited("ok", to_string_pretty(v2))

---------------------------------------------------------------------------
(* features.rs: the layout cleanup and the secrets file.                   *)

LayoutPath == "src/routes/__root.tsx"

ImportLine ==
    as_bytes("import { SessionProvider } from \"@/components/session-provider\"\n")

OpenMarker == as_bytes("        <SessionProvider>\n")

CloseMarker == as_bytes("        </SessionProvider>\n")

\* cleanup_layout_for_no_auth(output_path) on the tree fs below output_path:
\* Ok at once when the layout does not exist; otherwise the content is read
\* (an error for a directory or for bytes that are not UTF-8), the three
\* literals are replaced by nothing one after the other, and the file is
\* written back.
cleanup_layout_for_no_auth(fs, budget) ==
    IF ~Exists(fs, LayoutPath) THEN Ok(fs, budget)
    ELSE IF IsDir(fs, LayoutPath) THEN Err(fs, budget)
    ELSE LET read == read_to_string(fs[LayoutPath].bytes)
             content1 == str_replace(read.content, ImportLine, <<>>)
             content2 == str_replace(content1, OpenMarker, <<>>)
             content3 == str_replace(content2, CloseMarker, <<>>)
         IN  IF ~read.ok THEN Err(fs, budget)
             ELSE fs_write(fs, budget, LayoutPath, content3)

\* let bytes: [u8; 32]
SecretBytes == 32

LowerHexDigits == "0123456789abcdef"

\* The digit d (0..15) in lowercase hexadecimal.
LowerHex(d) == SubSeq(LowerHexDigits, d + 1, d + 1)

\* A variant of format_02x without the zero padding: format!("{:x}", b).
format_x(b) ==
    IF b < 16 THEN <<LowerHex(b)>> ELSE <<LowerHex(b \div 16), LowerHex(b % 16)>>

\* format!("{:02x}", b): two lowercase hexadecimal digits, zero padded.
format_02x(b) == <<LowerHex(b \div 16), LowerHex(b % 16)>>

\* Iterator::collect::<String>() of a sequence of strings: their concatenation.
RECURSIVE collect(_)
collect(strings) ==
    IF strings = <<>> THEN <<>>
    ELSE Head(strings) \o collect(Tail(strings))

\* generate_random_secret, for the 32 bytes rng.gen() yields.
generate_random_secret(bytes) ==
    collect([i \in 1..Len(bytes) |-> format_02x(bytes[i])])

\* generate_env_file(output_path) on the tree fs below output_path.
generate_env_file(fs, budget, bytes) ==
    LET auth_secret == generate_random_secret(bytes)
        env_content == as_bytes("# Auth (GitHub OAuth)\nAUTH_SECRET=")
                           \o auth_secret
                           \o as_bytes("\nAUTH_GITHUB_ID=\nAUTH_GITHUB_SECRET=\n")
    IN  fs_write(fs, budget, ".env", env_content)

---------------------------------------------------------------------------
(* The values of the variables a specification does not use.               *)

NoCall == [fn |-> "none"]
NoTree == <<>>
NoCopy == [loop |-> "none"]
NoPkg == [fmt |-> "none"]
NoEdit == [editor |-> "none"]
NoRun == [fn |-> "none"]

---------------------------------------------------------------------------
(* SpecPure: the pure functions, each applied to inputs drawn from bounded *)
(* sets.                                                                   *)

PathChars == {"a", "/"}

ExamplePaths ==
    {"docs", "docs/page.md", "docsx/page.md", "docs2/x",
     "src/lib/docs.ts", "src/lib/docs.tsx", "src/main.tsx"}

ExampleRules == {"docs", "src/lib/docs.ts"}

\* A walked entry's relative path and a rule of the program are never empty.
SkipPaths == (StringsUpTo(PathChars, MaxPathLen) \ {""}) \cup ExamplePaths

SkipRules == {"a", "a/", "aa", "a/a"} \cup ExampleRules

Langs == {"typescript", "javascript", "python", ""}

Pieces ==
    {"{{project_name}}", "{{", "}}", "roject_name}}", "_name}}", "{{project_", " x "}

RECURSIVE Texts(_)
Texts(n) ==
    IF n = 0 THEN {""}
    ELSE LET shorter == Texts(n - 1)
         IN  shorter \cup {s \o piece : s \in shorter, piece \in Pieces}

NameInputs == {"my-app", "p", "project", "name", "a1", "-a", "a-", "A", ""}

ProjectNames == {n \in NameInputs : name_regex_is_match(n)}

\* Every call the model draws: a function and its arguments.
IsPureCall(c) ==
    \/ \E fn \in {"should_skip_file", "main_should_skip_file"},
          path \in SkipPaths, skip_patterns \in SeqsUpTo(SkipRules, MaxRules) :
          c = [fn |-> fn, path |-> path, skip_patterns |-> skip_patterns]
    \/ \E d \in BOOLEAN, a \in BOOLEAN, b \in BOOLEAN :
          c = [fn |-> "get_files_to_skip", include_docs |-> d, include_auth |-> a,
               include_db |-> b]
    \/ \E l \in Langs, r \in BOOLEAN, k \in BOOLEAN, t \in BOOLEAN :
          c = [fn |-> "get_lib_files_to_skip", lang |-> l, include_react |-> r,
               include_css |-> k, include_testing |-> t]
    \/ \E text \in Texts(MaxPieces), name \in ProjectNames :
          c = [fn |-> "process_template", content |-> as_bytes(text),
               project_name |-> as_bytes(name)]

Pending == [done |-> FALSE]
Returned(v) == [done |-> TRUE, value |-> v]

InitPure ==
    /\ IsPureCall(call)
    /\ ret = Pending
    /\ tree = NoTree
    /\ out = NoTree
    /\ copy = NoCopy
    /\ pkg = NoPkg
    /\ pkgOut = NoPkg
    /\ edit = NoEdit
    /\ run = NoRun

UnusedByPure == <<tree, out, copy, pkg, pkgOut, edit, run>>

CallShouldSkipFile ==
    /\ call.fn = "should_skip_file"
    /\ ~ret.done
    /\ ret' = Returned(should_skip_file(call.path, call.skip_patterns))
    /\ UNCHANGED <<call, UnusedByPure>>

CallMainShouldSkipFile ==
    /\ call.fn = "main_should_skip_file"
    /\ ~ret.done
    /\ ret' = Returned(main_should_skip_file(call.path, call.skip_patterns))
    /\ UNCHANGED <<call, UnusedByPure>>

CallGetFilesToSkip ==
    /\ call.fn = "get_files_to_skip"
    /\ ~ret.done
    /\ ret' = Returned(get_files_to_skip(call.include_docs, call.include_auth,
                                         call.include_db))
    /\ UNCHANGED <<call, UnusedByPure>>

CallGetLibFilesToSkip ==
    /\ call.fn = "get_lib_files_to_skip"
    /\ ~ret.done
    /\ ret' = Returned(get_lib_files_to_skip(call.lang, call.include_react,
                                             call.include_css, call.include_testing))
    /\ UNCHANGED <<call, UnusedByPure>>

CallProcessTemplate ==
    /\ call.fn = "process_template"
    /\ ~ret.done
    /\ ret' = Returned(process_template(call.content, call.project_name))
    /\ UNCHANGED <<call, UnusedByPure>>

NextPure ==
    \/ CallShouldSkipFile
    \/ CallMainShouldSkipFile
    \/ CallGetFilesToSkip
    \/ CallGetLibFilesToSkip
    \/ CallProcessTemplate

SpecPure == InitPure /\ [][NextPure]_vars

---------------------------------------------------------------------------
(* SpecCopy: one materialization of a source tree into a fresh             *)
(* destination, by one of the three loops.                                 *)

TextWithToken == as_bytes("n={{project_name}}")
\* 0xC3 0xA9 is a well-formed two-byte character.
AccentedText == <<"C3", "A9">> \o as_bytes("{{project_name}}")
\* 0xFF never occurs in UTF-8.
BinaryWithToken == <<"FF">> \o as_bytes("{{project_name}}")

Contents == {TextWithToken, AccentedText, BinaryWithToken}

TreePaths == {"a", "a/f", "ab", "template.json", "template.json/f"}

Entries == {Dir} \cup {File(c) : c \in Contents}

\* Every entry of a tree lies in a directory of the tree.
WellFormedTree(t) ==
    \A p \in DOMAIN t : Parent(p) = "" \/ IsDir(t, Parent(p))

Trees ==
    {t \in UNION {[D -> Entries] : D \in SUBSET TreePaths} : WellFormedTree(t)}

CopyRules == {"a", "a/f"}

CopyNames == {"my-app", "p"}

\* The two extra_skip lists scaffold_fullstack passes to copy_filtered.
ExtraSkips == {<<"fullstack", "template.json">>, <<"template.json">>}

Budgets == {NoFault} \cup 0..MaxFaultAt

CopyCalls ==
    {[loop |-> "copy_template", project_name |-> n, files_to_skip |-> r,
      extra_skip |-> <<>>, result |-> "pending"] :
        n \in CopyNames, r \in SeqsUpTo(CopyRules, MaxCopyRules)}
    \cup
    {[loop |-> "copy_filtered", project_name |-> n, files_to_skip |-> r,
      extra_skip |-> x, result |-> "pending"] :
        n \in CopyNames, r \in SeqsUpTo(CopyRules, MaxCopyRules), x \in ExtraSkips}
    \cup
    {[loop |-> "main", project_name |-> n, files_to_skip |-> r,
      extra_skip |-> <<>>, result |-> "pending"] :
        n \in CopyNames, r \in SeqsUpTo(CopyRules, MaxCopyRules)}

InitCopy ==
    /\ tree \in Trees
    /\ out = NoTree
    /\ copy \in CopyCalls
    /\ call = NoCall
    /\ ret = Pending
    /\ pkg = NoPkg
    /\ pkgOut = NoPkg
    /\ edit = NoEdit
    /\ run = NoRun

UnusedByCopy == <<call, ret, pkg, pkgOut, edit, run>>

Finish(r) ==
    /\ out' = r.fs
    /\ copy' = [copy EXCEPT !.result = IF r.err THEN "err" ELSE "ok"]
    /\ UNCHANGED <<tree, UnusedByCopy>>

RunCopyTemplate ==
    /\ copy.loop = "copy_template"
    /\ copy.result = "pending"
    /\ \E order \in WalkOrders(tree), budget \in Budgets :
          Finish(copy_template(tree, out, budget, order,
                               as_bytes(copy.project_name), copy.files_to_skip))

RunCopyFiltered ==
    /\ copy.loop = "copy_filtered"
    /\ copy.result = "pending"
    /\ \E order \in WalkOrders(tree), budget \in Budgets :
          Finish(copy_filtered(tree, out, budget, order,
                               as_bytes(copy.project_name), copy.files_to_skip,
                               copy.extra_skip))

RunMainCopyLoop ==
    /\ copy.loop = "main"
    /\ copy.result = "pending"
    /\ \E order \in WalkOrders(tree), budget \in Budgets :
          Finish(main_copy_loop(tree, out, budget, order,
                                as_bytes(copy.project_name), copy.files_to_skip))

NextCopy ==
    \/ RunCopyTemplate
    \/ RunCopyFiltered
    \/ RunMainCopyLoop

SpecCopy == InitCopy /\ [][NextCopy]_vars

---------------------------------------------------------------------------
(* SpecOrder: copy_template handed the entries of the source tree in any   *)
(* order at all, a file before its directory included, into a destination  *)
(* that does not exist yet.                                                *)

\* Every enumeration of the entries of t, each entry once.
Enumerations(t) ==
    LET n == Cardinality(DOMAIN t)
    IN  {o \in [1..n -> DOMAIN t] : \A i, j \in 1..n : o[i] = o[j] => i = j}

OrderRules == {<<>>, <<"a">>, <<"a/f">>}

OrderCalls ==
    {[loop |-> "copy_template", project_name |-> "my-app", files_to_skip |-> r,
      extra_skip |-> <<>>, order |-> <<>>, budget |-> NoFault, result |-> "pending"] :
        r \in OrderRules}

\* The source trees whose files are text or binary.
OrderTrees ==
    {t \in Trees : \A p \in DOMAIN t : t[p] \in {Dir, File(TextWithToken), File(BinaryWithToken)}}

OrderBudgets == {NoFault} \cup 0..MaxStepFaultAt

InitOrder ==
    /\ tree \in OrderTrees
    /\ out = NoTree
    /\ copy \in OrderCalls
    /\ call = NoCall
    /\ ret = Pending
    /\ pkg = NoPkg
    /\ pkgOut = NoPkg
    /\ edit = NoEdit
    /\ run = NoRun

RunCopyTemplateInOrder ==
    /\ copy.loop = "copy_template"
    /\ copy.result = "pending"
    /\ \E order \in Enumerations(tree), budget \in OrderBudgets :
          LET r == copy_template(tree, out, budget, order,
                                 as_bytes(copy.project_name), copy.files_to_skip)
          IN  /\ out' = r.fs
              /\ copy' = [copy EXCEPT !.order = order, !.budget = budget,
                                      !.result = IF r.err THEN "err" ELSE "ok"]
    /\ UNCHANGED <<tree, UnusedByCopy>>

NextOrder == RunCopyTemplateInOrder

SpecOrder == InitOrder /\ [][NextOrder]_vars

---------------------------------------------------------------------------
(* SpecManifest: one edit of a package.json by one of the three editors.   *)

\* Objects over every subset of keys, each key with the version ver[k].
ObjectsOver(keys, ver) == {Obj([k \in K |-> Str(ver[k])]) : K \in SUBSET keys}

\* What a section may hold besides an object.
NotObjects == {Null, Str("x")}

Absent == [t |-> "absent"]

\* The object made of the sections that are present.
Manifest(sections) ==
    Obj([k \in {n \in DOMAIN sections : sections[n] # Absent} |-> sections[k]])

OldVersion == [k \in {"gray-matter", "@auth/core", "pg", "react", "@mdx-js/rollup",
                       "@types/pg", "vite"} |-> "^0.1.0"]

\* Manifests of an app template.
AppManifests ==
    {Manifest([dependencies |-> d, devDependencies |-> v, name |-> n]) :
        d \in {Absent} \cup NotObjects
               \cup ObjectsOver({"gray-matter", "@auth/core", "pg", "react"}, OldVersion),
        v \in {Absent} \cup NotObjects
               \cup ObjectsOver({"@mdx-js/rollup", "@types/pg", "pg", "vite"}, OldVersion),
        n \in {Absent, Str("my-app")}}

LibVersion == [k \in {"tailwindcss", "zod", "typescript", "react", "vitest", "test"}
                  |-> IF k = "test" THEN "vitest run" ELSE "^0.1.0"]

\* Manifests of a library template.
LibManifests ==
    {Manifest([dependencies |-> d, devDependencies |-> v, peerDependencies |-> p,
               scripts |-> s]) :
        d \in {Absent} \cup NotObjects \cup ObjectsOver({"tailwindcss", "zod"}, LibVersion),
        v \in {Absent} \cup NotObjects
               \cup ObjectsOver({"typescript", "react", "vitest"}, LibVersion),
        p \in {Absent, Null} \cup ObjectsOver({"react"}, LibVersion),
        s \in {Absent, Str("x")} \cup ObjectsOver({"test"}, LibVersion)}

\* Files that hold no manifest object: no file, text that is not JSON, and
\* well-formed JSON that is null or a string.
OddFiles == {Missing, Malformed, Text("compact", Null), Text("compact", Str("x"))}

AppFiles == {Text("compact", v) : v \in AppManifests} \cup OddFiles

LibFiles == {Text("compact", v) : v \in LibManifests} \cup OddFiles

EditLangs == {"typescript", "javascript", "python"}

EditCalls ==
    {[editor |-> e, include_docs |-> d, include_auth |-> a, include_db |-> b,
      result |-> "pending"] :
        e \in {"update_package_json", "main_update_package_json"},
        d \in BOOLEAN, a \in BOOLEAN, b \in BOOLEAN}
    \cup
    {[editor |-> "update_lib_package_json", lang |-> l, include_react |-> r,
      include_css |-> c, include_testing |-> t, result |-> "pending"] :
        l \in EditLangs, r \in BOOLEAN, c \in BOOLEAN, t \in BOOLEAN}

InitManifest ==
    /\ edit \in EditCalls
    /\ pkg \in (IF edit.editor = "update_lib_package_json" THEN LibFiles ELSE AppFiles)
    /\ pkgOut = pkg
    /\ call = NoCall
    /\ ret = Pending
    /\ tree = NoTree
    /\ out = NoTree
    /\ copy = NoCopy
    /\ run = NoRun

UnusedByManifest == <<call, ret, tree, out, copy, run>>

Record(r) ==
    /\ pkgOut' = r.file
    /\ edit' = [edit EXCEPT !.result = r.status]
    /\ UNCHANGED <<pkg, UnusedByManifest>>

RunUpdatePackageJson ==
    /\ edit.editor = "update_package_json"
    /\ edit.result = "pending"
    /\ Record(update_package_json(pkg, edit.include_docs, edit.include_auth,
                                  edit.include_db))

RunUpdateLibPackageJson ==
    /\ edit.editor = "update_lib_package_json"
    /\ edit.result = "pending"
    /\ Record(update_lib_package_json(pkg, edit.lang, edit.include_react,
                                      edit.include_css, edit.include_testing))

RunMainUpdatePackageJson ==
    /\ edit.editor = "main_update_package_json"
    /\ edit.result = "pending"
    /\ Record(main_update_package_json(pkg, edit.include_docs, edit.include_auth,
                                       edit.include_db))

NextManifest ==
    \/ RunUpdatePackageJson
    \/ RunUpdateLibPackageJson
    \/ RunMainUpdatePackageJson

SpecManifest == InitManifest /\ [][NextManifest]_vars

---------------------------------------------------------------------------
(* SpecTwice: update_package_json or update_lib_package_json run again and *)
(* again with the same toggles, each run reading the file the run before   *)
(* it left.  pkg is the file before the first run, pkgOut the file now,    *)
(* edit.first the file after the first run.                                *)

InitTwice ==
    /\ edit \in {c @@ [runs |-> 0, first |-> NoPkg] :
                    c \in {e \in EditCalls : e.editor # "main_update_package_json"}}
    /\ pkg \in (IF edit.editor = "update_lib_package_json" THEN LibFiles ELSE AppFiles)
    /\ pkgOut = pkg
    /\ call = NoCall
    /\ ret = Pending
    /\ tree = NoTree
    /\ out = NoTree
    /\ copy = NoCopy
    /\ run = NoRun

\* One more run has left the outcome r.
RecordRun(r) ==
    /\ pkgOut' = r.file
    /\ edit' = [edit EXCEPT !.result = r.status, !.runs = @ + 1,
                            !.first = IF edit.runs = 0 THEN r.file ELSE @]
    /\ UNCHANGED <<pkg, UnusedByManifest>>

RunUpdatePackageJsonAgain ==
    /\ edit.editor = "update_package_json"
    /\ edit.runs < MaxRuns
    /\ RecordRun(update_package_json(pkgOut, edit.include_docs, edit.include_auth,
                                     edit.include_db))

RunUpdateLibPackageJsonAgain ==
    /\ edit.editor = "update_lib_package_json"
    /\ edit.runs < MaxRuns
    /\ RecordRun(update_lib_package_json(pkgOut, edit.lang, edit.include_react,
                                         edit.include_css, edit.include_testing))

NextTwice ==
    \/ RunUpdatePackageJsonAgain
    \/ RunUpdateLibPackageJsonAgain

SpecTwice == InitTwice /\ [][NextTwice]_vars

---------------------------------------------------------------------------
(* SpecFeatures: one call of cleanup_layout_for_no_auth, of                *)
(* generate_random_secret or of generate_env_file, on the tree below the   *)
(* output path.                                                            *)

OutletLine == as_bytes("          <Outlet />\n")

\* The fragments a layout is built from: the three literals, another line,
\* the opening marker indented by four more spaces, the import line behind a
\* comment sign, and the opening marker without its line end.
LayoutPieces ==
    {ImportLine, OpenMarker, CloseMarker, OutletLine,
     as_bytes("    ") \o OpenMarker,
     as_bytes("// ") \o ImportLine,
     as_bytes("        <SessionProvider>")}

RECURSIVE LayoutTexts(_)
LayoutTexts(n) ==
    IF n = 0 THEN {<<>>}
    ELSE LET shorter == LayoutTexts(n - 1)
         IN  shorter \cup {s \o piece : s \in shorter, piece \in LayoutPieces}

\* What the tree holds at the layout path: nothing, a directory, a text, or
\* bytes that are not UTF-8.
LayoutEntries ==
    {Absent, Dir, File(<<"FF">> \o OpenMarker)}
        \cup {File(c) : c \in LayoutTexts(MaxLayoutLines)}

OldEnv == as_bytes("AUTH_SECRET=old\nDATABASE_URL=x\n")

EnvEntries == {Absent, Dir, File(OldEnv)}

BaseTree ==
    [p \in {"", "src", "src/routes", "src/main.tsx"} |->
        IF p = "src/main.tsx" THEN File(TextWithToken) ELSE Dir]

WithEntry(t, p, e) ==
    IF e = Absent THEN t
    ELSE [q \in DOMAIN t \cup {p} |-> IF q = p THEN e ELSE t[q]]

RngSeeds == 0..255

RngSteps == {0, 1, 7, 16}

\* The values the random source is made to yield.
RngDraws ==
    {[i \in 1..SecretBytes |-> (seed + i * step) % 256] :
        seed \in RngSeeds, step \in RngSteps}

InitFeatures ==
    /\ \/ \E layout \in LayoutEntries, env \in {Absent, File(OldEnv)},
             budget \in {NoFault, 0} :
             /\ call = [fn |-> "cleanup_layout_for_no_auth", budget |-> budget]
             /\ tree = WithEntry(WithEntry(BaseTree, LayoutPath, layout), ".env", env)
       \/ \E bytes \in RngDraws, env \in EnvEntries, budget \in {NoFault, 0} :
             /\ call = [fn |-> "generate_env_file", bytes |-> bytes, budget |-> budget]
             /\ tree = WithEntry(BaseTree, ".env", env)
       \/ \E bytes \in RngDraws :
             /\ call = [fn |-> "generate_random_secret", bytes |-> bytes]
             /\ tree = BaseTree
    /\ out = tree
    /\ ret = Pending
    /\ copy = NoCopy
    /\ pkg = NoPkg
    /\ pkgOut = NoPkg
    /\ edit = NoEdit
    /\ run = NoRun

UnusedByFeatures == <<tree, copy, pkg, pkgOut, edit, run>>

ResultOf(r) == IF r.err THEN "err" ELSE "ok"

RunCleanupLayout ==
    /\ call.fn = "cleanup_layout_for_no_auth"
    /\ ~ret.done
    /\ LET r == cleanup_layout_for_no_auth(out, call.budget)
       IN  /\ out' = r.fs
           /\ ret' = Returned(ResultOf(r))
    /\ UNCHANGED <<call, UnusedByFeatures>>

CallGenerateRandomSecret ==
    /\ call.fn = "generate_random_secret"
    /\ ~ret.done
    /\ ret' = Returned(generate_random_secret(call.bytes))
    /\ UNCHANGED <<call, out, UnusedByFeatures>>

RunGenerateEnvFile ==
    /\ call.fn = "generate_env_file"
    /\ ~ret.done
    /\ LET r == generate_env_file(out, call.budget, call.bytes)
       IN  /\ out' = r.fs
           /\ ret' = Returned(ResultOf(r))
    /\ UNCHANGED <<call, UnusedByFeatures>>

NextFeatures ==
    \/ RunCleanupLayout
    \/ CallGenerateRandomSecret
    \/ RunGenerateEnvFile

SpecFeatures == InitFeatures /\ [][NextFeatures]_vars

---------------------------------------------------------------------------
(* The text of a manifest as bytes: what a package.json in a tree holds.   *)

\* The keys of the manifests of the model, in the order of their bytes (the
\* order in which serde_json's Map keeps and writes them).
KeyOrder ==
    <<"@auth/core", "@types/pg", "dependencies", "devDependencies", "gray-matter",
      "name", "pg", "react">>

SortedKeys(m) == SelectSeq(KeyOrder, LAMBDA k : k \in DOMAIN m)

\* The line break and indentation the pretty layout puts before a member.
RECURSIVE Spaces(_)
Spaces(depth) == IF depth = 0 THEN "" ELSE "  " \o Spaces(depth - 1)

Indent(layout, depth) == IF layout = "pretty" THEN "\n" \o Spaces(depth) ELSE ""

\* serde_json's serializer: the JSON text of v, in the compact or in the
\* pretty (two-space) layout.
RECURSIVE json_text(_, _, _)
RECURSIVE json_members(_, _, _, _)
json_text(v, layout, depth) ==
    IF v.t = "null" THEN "null"
    ELSE IF v.t = "str" THEN "\"" \o v.s \o "\""
    ELSE IF DOMAIN v.m = {} THEN "{}"
    ELSE "{" \o json_members(v.m, SortedKeys(v.m), layout, depth + 1)
             \o Indent(layout, depth) \o "}"

json_members(m, keys, layout, depth) ==
    IF keys = <<>> THEN ""
    ELSE Indent(layout, depth)
           \o "\"" \o Head(keys) \o "\":" \o (IF layout = "pretty" THEN " " ELSE "")
           \o json_text(m[Head(keys)], layout, depth)
           \o (IF Len(keys) > 1 THEN "," ELSE "")
           \o json_members(m, Tail(keys), layout, depth)

\* The bytes of a manifest text.
render(text) == as_bytes(json_text(text.v, text.fmt, 0))

\* The manifest of a template: the project name is the token until the copy
\* substitutes it.
TemplateManifest(name) ==
    Obj([k \in {"name", "dependencies", "devDependencies"} |->
            CASE k = "name" -> Str(name)
              [] k = "dependencies" ->
                    Obj([d \in {"@auth/core", "gray-matter", "pg", "react"} |->
                            Str("^0.1.0")])
              [] k = "devDependencies" -> Obj([d \in {"@types/pg"} |-> Str("^0.1.0")])])

RunNames == {"my-app"}

\* The well-formed manifest texts a run of the model can come to read.
KnownTexts ==
    {Text("compact", TemplateManifest(n)) : n \in RunNames \cup {"{{project_name}}"}}

MalformedBytes == as_bytes("{\"name\": ")

\* serde_json::from_str on bytes, over the texts of the model: the value of
\* the known text with these bytes, a parse error for every other content.
parse(bytes) ==
    IF \E x \in KnownTexts : render(x) = bytes
    THEN CHOOSE x \in KnownTexts : render(x) = bytes
    ELSE Malformed

---------------------------------------------------------------------------
(* fullstack.rs: scaffold_fullstack, step by step.                         *)

Join(d, p) == IF p = "" THEN d ELSE d \o "/" \o p

\* The tree below directory d of fs, with paths relative to d.
Sub(fs, d) ==
    LET below == {q \in DOMAIN fs : starts_with(q, d \o "/")}
        rel == {SubSeq(q, Len(d) + 2, Len(q)) : q \in below}
                  \cup (IF d \in DOMAIN fs THEN {""} ELSE {})
    IN  [p \in rel |-> fs[Join(d, p)]]

\* fs with the tree sub in place of what it has at and below d.
Graft(fs, d, sub) ==
    LET kept == {q \in DOMAIN fs : q # d /\ ~starts_with(q, d \o "/")}
    IN  [q \in kept \cup {Join(d, p) : p \in DOMAIN sub} |->
            IF q \in kept THEN fs[q]
            ELSE IF q = d THEN sub[""]
            ELSE sub[SubSeq(q, Len(d) + 2, Len(q))]]

\* The result r of an operation on Sub(fs, d), as a result on fs.
Within(fs, d, r) == [r EXCEPT !.fs = Graft(fs, d, r.fs)]

\* update_package_json(output_path, ..) on the tree fs below output_path:
\* the file is read and parsed, edited, and written back in the pretty layout.
update_package_json_at(fs, budget, include_docs, include_auth, include_db) ==
    LET file == IF ~IsFile(fs, "package.json") THEN Missing
                ELSE IF ~read_to_string(fs["package.json"].bytes).ok THEN Malformed
                ELSE parse(fs["package.json"].bytes)
        edited == update_package_json(file, include_docs, include_auth, include_db)
    IN  IF edited.status = "ok"
        THEN fs_write(fs, budget, "package.json", render(edited.file))
        ELSE Err(fs, budget)

\* Whether scaffold_fullstack takes a step: the conditions of its if statements.
takes_step(step, include_auth, has_overlay) ==
    CASE step = "cleanup_layout" -> ~include_auth
      [] step = "copy_overlay" -> has_overlay
      [] step = "generate_env" -> include_auth
      [] OTHER -> TRUE

\* A variant of step_order that generates the secrets file before it copies
\* the overlay.
step_order_env_before_overlay ==
    <<"copy_frontend", "update_package_json", "cleanup_layout", "generate_env",
      "copy_overlay">>

\* The steps of scaffold_fullstack, in the order of its source.
step_order ==
    <<"copy_frontend", "update_package_json", "cleanup_layout", "copy_overlay",
      "generate_env">>

\* The step scaffold_fullstack takes after step number i, "done" after the last.
RECURSIVE step_after(_, _, _)
step_after(i, include_auth, has_overlay) ==
    IF i >= Len(step_order) THEN "done"
    ELSE IF takes_step(step_order[i + 1], include_auth, has_overlay)
         THEN step_order[i + 1]
         ELSE step_after(i + 1, include_auth, has_overlay)

StepNumber(step) == CHOOSE i \in 1..Len(step_order) : step_order[i] = step

\* A variant of propagate that goes on after an error.
propagate_ignoring_error(r, next) ==
    [pc |-> next, result |-> IF next = "done" THEN "ok" ELSE "running"]

\* The ? operator after a step: an error ends the run, otherwise the run
\* goes on with the next step, or returns Ok after the last.
propagate(r, next) ==
    IF r.err THEN [pc |-> "done", result |-> "err"]
    ELSE [pc |-> next, result |-> IF next = "done" THEN "ok" ELSE "running"]

\* fs::create_dir_all(output_path) and the copy of the frontend into web/.
copy_frontend(t, fs, budget, order, project_name, include_docs, include_auth) ==
    LET made == create_dir_all(fs, budget, "")
        files_to_skip == get_files_to_skip(include_docs, include_auth, FALSE)
    IN  IF made.err THEN made
        ELSE Within(made.fs, "web",
                    copy_filtered(t, Sub(made.fs, "web"), made.budget, order,
                                  project_name, files_to_skip,
                                  <<"fullstack", "template.json">>))

\* The copy of the overlay fullstack/ into the output root.
copy_overlay(t, fs, budget, order, project_name) ==
    copy_filtered(Sub(t, "fullstack"), fs, budget, order, project_name, <<>>,
                  <<"template.json">>)

---------------------------------------------------------------------------
(* SpecFullstack: one run of scaffold_fullstack from a template tree into  *)
(* an output path that does not exist yet.                                 *)

SrcDirs(dirs) == [p \in dirs |-> Dir]

LayoutWithMarkers == ImportLine \o OpenMarker \o OutletLine \o CloseMarker

ManifestParts ==
    {<<>>,
     "package.json" :> File(render(Text("compact", TemplateManifest("{{project_name}}")))),
     "package.json" :> File(MalformedBytes)}

\* A template with the layout has the auth module beside it.
LayoutParts ==
    {<<>>,
     SrcDirs({"src", "src/routes", "src/lib"})
         @@ (LayoutPath :> File(LayoutWithMarkers))
         @@ ("src/lib/auth.ts" :> File(TextWithToken)),
     SrcDirs({"src", "src/routes"}) @@ (LayoutPath :> File(<<"FF">>))}

TemplateEnv == ".env" :> File(OldEnv)

OverlayEnv ==
    SrcDirs({"fullstack", "fullstack/web"}) @@ ("fullstack/web/.env" :> File(OldEnv))

\* What else the template carries: a .env of its own (a file or a
\* directory), and an overlay that holds a crate manifest, a web/.env, or a
\* file at the skip path web/api/auth.
ExtraParts ==
    {<<>>,
     TemplateEnv,
     ".env" :> Dir,
     SrcDirs({"fullstack"}) @@ ("fullstack/Cargo.toml" :> File(TextWithToken)),
     OverlayEnv,
     TemplateEnv @@ OverlayEnv,
     SrcDirs({"fullstack", "fullstack/web", "fullstack/web/api"})
         @@ ("fullstack/web/api/auth" :> File(TextWithToken))}

FullstackTrees ==
    {m @@ l @@ x : m \in ManifestParts, l \in LayoutParts, x \in ExtraParts}

\* The environment may fail a mutation of any step.
StepBudgets == {NoFault} \cup 0..MaxStepFaultAt

FullstackRuns ==
    {[fn |-> "scaffold_fullstack", project_name |-> n, include_auth |-> a,
      include_docs |-> d, bytes |-> r, pc |-> "copy_frontend",
      log |-> <<>>, result |-> "running"] :
        n \in RunNames, a \in BOOLEAN, d \in BOOLEAN,
        r \in {[i \in 1..SecretBytes |-> (10 + 7 * i) % 256]}}

InitFullstack ==
    /\ tree \in FullstackTrees
    /\ out = NoTree
    /\ run \in FullstackRuns
    /\ call = NoCall
    /\ ret = Pending
    /\ copy = NoCopy
    /\ pkg = NoPkg
    /\ pkgOut = NoPkg
    /\ edit = NoEdit

UnusedByFullstack == <<call, ret, copy, pkg, pkgOut, edit>>

\* The run after step has left the result r.
Advance(step, r) ==
    LET next == step_after(StepNumber(step), run.include_auth, IsDir(tree, "fullstack"))
        to == propagate(r, next)
    IN  /\ out' = r.fs
        /\ run' = [run EXCEPT !.log = Append(@, [step |-> step, err |-> r.err]),
                               !.pc = to.pc, !.result = to.result]
        /\ UNCHANGED <<tree, UnusedByFullstack>>

AtStep(step) ==
    /\ run.fn = "scaffold_fullstack"
    /\ run.result = "running"
    /\ run.pc = step

FullstackCopyFrontend ==
    /\ AtStep("copy_frontend")
    /\ \E order \in WalkOrders(tree), budget \in StepBudgets :
          Advance("copy_frontend",
                  copy_frontend(tree, out, budget, order,
                                as_bytes(run.project_name), run.include_docs,
                                run.include_auth))

FullstackUpdatePackageJson ==
    /\ AtStep("update_package_json")
    /\ \E budget \in StepBudgets :
          Advance("update_package_json",
                  Within(out, "web",
                         update_package_json_at(Sub(out, "web"), budget,
                                                run.include_docs, run.include_auth,
                                                FALSE)))

FullstackCleanupLayout ==
    /\ AtStep("cleanup_layout")
    /\ \E budget \in StepBudgets :
          Advance("cleanup_layout",
                  Within(out, "web",
                         cleanup_layout_for_no_auth(Sub(out, "web"), budget)))

FullstackCopyOverlay ==
    /\ AtStep("copy_overlay")
    /\ \E order \in WalkOrders(Sub(tree, "fullstack")), budget \in StepBudgets :
          Advance("copy_overlay",
                  copy_overlay(tree, out, budget, order,
                               as_bytes(run.project_name)))

FullstackGenerateEnv ==
    /\ AtStep("generate_env")
    /\ \E budget \in StepBudgets :
          Advance("generate_env",
                  Within(out, "web",
                         generate_env_file(Sub(out, "web"), budget, run.bytes)))

NextFullstack ==
    \/ FullstackCopyFrontend
    \/ FullstackUpdatePackageJson
    \/ FullstackCleanupLayout
    \/ FullstackCopyOverlay
    \/ FullstackGenerateEnv

SpecFullstack == InitFullstack /\ [][NextFullstack]_vars

---------------------------------------------------------------------------
(* main.rs: the run of main, step by step; template.rs: init_git and       *)
(* install_deps.                                                           *)

\* How a Command ends: it ran and exited with 0, it ran and exited with
\* another status, or the program could not be started.
Outcomes == {"ok", "nonzero", "spawn_failed"}

\* A variant of main_validate that does not look at the output path.
main_validate_name_only(project_name, before) ==
    IF ~name_regex_is_match(project_name) THEN Err(before, NoFault)
    ELSE Ok(before, NoFault)

\* main, up to the questions about the features: the naming pattern, then
\* output_path.exists(); each bails out.
main_validate(project_name, before) ==
    IF ~name_regex_is_match(project_name) THEN Err(before, NoFault)
    ELSE IF Exists(before, "") THEN Err(before, NoFault)
    ELSE Ok(before, NoFault)

\* The tree without what is at and below d: fs::remove_dir_all(d).
remove_dir_all(fs, d) ==
    [q \in {p \in DOMAIN fs : p # d /\ ~starts_with(p, d \o "/")} |-> fs[q]]

\* git clone into the temporary directory and the removal of its .git: the
\* template the copy loop walks, or the error of a clone that failed.
main_clone(repository, outcome) ==
    IF outcome # "ok" THEN [temp |-> <<>>, err |-> TRUE]
    ELSE [temp |-> IF Exists(repository, ".git")
                   THEN remove_dir_all(repository, ".git")
                   ELSE repository,
          err |-> FALSE]

\* update_package_json(&output_path, ..) of main.rs on the tree fs.
main_update_package_json_at(fs, budget, include_docs, include_auth, include_db) ==
    LET file == IF ~IsFile(fs, "package.json") THEN Missing
                ELSE IF ~read_to_string(fs["package.json"].bytes).ok THEN Malformed
                ELSE parse(fs["package.json"].bytes)
        edited == main_update_package_json(file, include_docs, include_auth, include_db)
    IN  IF edited.status = "ok"
        THEN fs_write(fs, budget, "package.json", render(edited.file))
        ELSE Err(fs, budget)

\* What git init leaves in the directory it ran in.
git_init_effect(fs, outcome) ==
    IF outcome = "ok" /\ ~Exists(fs, ".git")
    THEN [q \in DOMAIN fs \cup {".git"} |-> IF q = ".git" THEN Dir ELSE fs[q]]
    ELSE fs

\* What an installer leaves in the directory it ran in.
install_effect(fs, outcome) ==
    IF outcome = "ok" /\ ~Exists(fs, "node_modules")
    THEN [q \in DOMAIN fs \cup {"node_modules"} |->
             IF q = "node_modules" THEN Dir ELSE fs[q]]
    ELSE fs

\* Three commands, each followed by .status()?: a command that cannot be
\* started returns the error and the later ones do not run; the exit status
\* is not looked at.
init_git(fs, outcomes) ==
    LET failed == {i \in 1..3 : outcomes[i] = "spawn_failed"}
    IN  IF failed = {}
        THEN Ok(git_init_effect(fs, outcomes[1]), NoFault)
        ELSE IF 1 \in failed THEN Err(fs, NoFault)
        ELSE Err(git_init_effect(fs, outcomes[1]), NoFault)

\* bun install, then bun add: an Err of .status() is printed as a warning,
\* the exit status is not looked at, and Ok(()) is returned.
install_deps(fs, outcomes) == Ok(install_effect(fs, outcomes[1]), NoFault)

\* The git commands of main: .status()? as in init_git.
main_init_git(fs, outcomes) ==
    LET failed == {i \in 1..3 : outcomes[i] = "spawn_failed"}
    IN  IF failed = {}
        THEN Ok(git_init_effect(fs, outcomes[1]), NoFault)
        ELSE IF 1 \in failed THEN Err(fs, NoFault)
        ELSE Err(git_init_effect(fs, outcomes[1]), NoFault)

\* npm install of main: if let Err(e) = status prints a warning.
main_npm_install(fs, outcomes) == Ok(install_effect(fs, outcomes[1]), NoFault)

\* The steps of main, in the order of its source.
main_step_order ==
    <<"validate", "tempdir", "clone", "copy", "update_package_json", "git", "install">>

main_takes_step(step, no_git, no_install) ==
    CASE step = "git" -> ~no_git
      [] step = "install" -> ~no_install
      [] OTHER -> TRUE

RECURSIVE main_step_after(_, _, _)
main_step_after(i, no_git, no_install) ==
    IF i >= Len(main_step_order) THEN "done"
    ELSE IF main_takes_step(main_step_order[i + 1], no_git, no_install)
         THEN main_step_order[i + 1]
         ELSE main_step_after(i + 1, no_git, no_install)

---------------------------------------------------------------------------
(* SpecMain: one run of main, of init_git or of install_deps.              *)

MainNames == {"my-app", "-a", "A", ""}

\* What is at the output path before the run: nothing, a directory with a
\* file, or a file.
Befores ==
    {NoTree,
     ("" :> Dir) @@ ("keep" :> File(TextWithToken)),
     "" :> File(TextWithToken)}

\* The repositories a clone delivers.
Repositories ==
    {(".git" :> Dir) @@ (".git/HEAD" :> File(TextWithToken)) @@ m @@ x :
        m \in ManifestParts, x \in {<<>>, "a" :> File(TextWithToken)}}

MainRuns ==
    {[fn |-> "main", project_name |-> n, include_docs |-> d, include_auth |-> a,
      include_db |-> b, no_git |-> g, no_install |-> i, before |-> o,
      temp |-> NoTree, pc |-> "validate", log |-> <<>>, result |-> "running"] :
        n \in MainNames, d \in BOOLEAN, a \in BOOLEAN, b \in BOOLEAN,
        g \in BOOLEAN, i \in BOOLEAN, o \in Befores}

\* The tree init_git and install_deps are called on once the scaffold is
\* written.
Scaffolded ==
    ("" :> Dir) @@ ("package.json" :> File(render(Text("pretty", TemplateManifest("my-app")))))

InitMain ==
    /\ \/ /\ run \in MainRuns
          /\ tree \in Repositories
          /\ out = run.before
       \/ /\ run \in {[fn |-> f, before |-> Scaffolded, pc |-> "call", log |-> <<>>,
                       result |-> "running"] : f \in {"init_git", "install_deps"}}
          /\ tree = NoTree
          /\ out = Scaffolded
    /\ call = NoCall
    /\ ret = Pending
    /\ copy = NoCopy
    /\ pkg = NoPkg
    /\ pkgOut = NoPkg
    /\ edit = NoEdit

UnusedByMain == <<call, ret, copy, pkg, pkgOut, edit>>

MainAt(step) ==
    /\ run.fn = "main"
    /\ run.result = "running"
    /\ run.pc = step

\* The run of main after step has left the result r; temp is what the
\* temporary directory holds then.
MainAdvance(step, r, temp, outcomes) ==
    LET i == CHOOSE k \in 1..Len(main_step_order) : main_step_order[k] = step
        next == main_step_after(i, run.no_git, run.no_install)
        to == propagate(r, next)
    IN  /\ out' = r.fs
        /\ run' = [run EXCEPT !.log = Append(@, [step |-> step, err |-> r.err,
                                                  outcomes |-> outcomes]),
                               !.temp = temp, !.pc = to.pc, !.result = to.result]
        /\ UNCHANGED <<tree, UnusedByMain>>

MainValidate ==
    /\ MainAt("validate")
    /\ MainAdvance("validate", main_validate(run.project_name, out), run.temp, <<>>)

\* tempfile::tempdir()?
MainTempDir ==
    /\ MainAt("tempdir")
    /\ \E failed \in BOOLEAN :
          MainAdvance("tempdir", [fs |-> out, err |-> failed],
                      IF failed THEN run.temp ELSE "" :> Dir, <<>>)

MainClone ==
    /\ MainAt("clone")
    /\ \E outcome \in Outcomes :
          LET cloned == main_clone(tree, outcome)
          IN  MainAdvance("clone", [fs |-> out, err |-> cloned.err],
                          IF cloned.err THEN run.temp ELSE run.temp @@ cloned.temp,
                          <<outcome>>)

MainCopy ==
    /\ MainAt("copy")
    /\ \E order \in WalkOrders(run.temp), budget \in StepBudgets :
          MainAdvance("copy",
                      main_copy_loop(run.temp, out, budget, order,
                                     as_bytes(run.project_name),
                                     main_get_files_to_skip(run.include_docs,
                                                            run.include_auth,
                                                            run.include_db)),
                      run.temp, <<>>)

MainUpdatePackageJson ==
    /\ MainAt("update_package_json")
    /\ \E budget \in StepBudgets :
          MainAdvance("update_package_json",
                      main_update_package_json_at(out, budget, run.include_docs,
                                                  run.include_auth, run.include_db),
                      run.temp, <<>>)

MainGit ==
    /\ MainAt("git")
    /\ \E outcomes \in [1..3 -> Outcomes] :
          MainAdvance("git", main_init_git(out, outcomes), run.temp, outcomes)

MainInstall ==
    /\ MainAt("install")
    /\ \E outcomes \in [1..1 -> Outcomes] :
          MainAdvance("install", main_npm_install(out, outcomes), run.temp, outcomes)

\* The end of a call of init_git or install_deps with the result r.
Return(r, outcomes) ==
    /\ out' = r.fs
    /\ run' = [run EXCEPT !.log = Append(@, [step |-> run.fn, err |-> r.err,
                                              outcomes |-> outcomes]),
                           !.pc = "done", !.result = ResultOf(r)]
    /\ UNCHANGED <<tree, UnusedByMain>>

RunInitGit ==
    /\ run.fn = "init_git"
    /\ run.result = "running"
    /\ \E outcomes \in [1..3 -> Outcomes] : Return(init_git(out, outcomes), outcomes)

RunInstallDeps ==
    /\ run.fn = "install_deps"
    /\ run.result = "running"
    /\ \E outcomes \in [1..2 -> Outcomes] : Return(install_deps(out, outcomes), outcomes)

NextMain ==
    \/ MainValidate
    \/ MainTempDir
    \/ MainClone
    \/ MainCopy
    \/ MainUpdatePackageJson
    \/ MainGit
    \/ MainInstall
    \/ RunInitGit
    \/ RunInstallDeps

SpecMain == InitMain /\ [][NextMain]_vars

---------------------------------------------------------------------------
(* runner.rs: detect_project.  Paths are strings as the caller gives them: *)
(* absolute ("/p/a") or relative to the working directory ("a", and "" for *)
(* the working directory itself).                                          *)

\* PathBuf::join of a directory and a file name.
path_join(d, name) ==
    IF d = "" THEN name
    ELSE IF SubSeq(d, Len(d), Len(d)) = "/" THEN d \o name
    ELSE d \o "/" \o name

\* PathBuf::pop: truncates the path to its parent; false, and nothing done,
\* when there is none (the path is the root or is empty).
pop(d) ==
    IF d = "" \/ d = "/" THEN [popped |-> FALSE, dir |-> d]
    ELSE LET slashes == Slashes(d)
             last == CHOOSE i \in slashes : \A j \in slashes : j <= i
         IN  IF slashes = {} THEN [popped |-> TRUE, dir |-> ""]
             ELSE IF last = 1 THEN [popped |-> TRUE, dir |-> "/"]
             ELSE [popped |-> TRUE, dir |-> SubSeq(d, 1, last - 1)]

\* Path::exists: a relative path is looked up from the working directory.
path_exists(fs, cwd, p) ==
    Exists(fs, IF starts_with(p, "/") THEN p ELSE path_join(cwd, p))

\* A variant of the three checks that looks for Cargo.toml first.
kind_in_cargo_first(fs, cwd, dir) ==
    IF path_exists(fs, cwd, path_join(dir, "Cargo.toml")) THEN "Rust"
    ELSE IF path_exists(fs, cwd, path_join(dir, "package.json")) THEN "Frontend"
    ELSE IF path_exists(fs, cwd, path_join(dir, "devforge.toml")) THEN "Fullstack"
    ELSE "none"

\* The three checks of one loop iteration: the kind of the project rooted
\* at dir, "none" when the iteration falls through to pop.
kind_in(fs, cwd, dir) ==
    IF path_exists(fs, cwd, path_join(dir, "devforge.toml")) THEN "Fullstack"
    ELSE IF path_exists(fs, cwd, path_join(dir, "package.json")) THEN "Frontend"
    ELSE IF path_exists(fs, cwd, path_join(dir, "Cargo.toml")) THEN "Rust"
    ELSE "none"

\* One iteration of the loop of detect_project on the run r.
detect_iteration(fs, r) ==
    LET kind == kind_in(fs, r.cwd, r.dir)
        up == pop(r.dir)
    IN  IF kind # "none" THEN [r EXCEPT !.kind = kind, !.result = "ok"]
        ELSE IF ~up.popped THEN [r EXCEPT !.result = "err"]
        ELSE [r EXCEPT !.dir = up.dir]

---------------------------------------------------------------------------
(* SpecDetect: detect_project, one loop iteration per step, from every     *)
(* start path of a small directory tree with every placement of the three  *)
(* marker files.  The loop is sequential code: an iteration that can run   *)
(* does run, which is the weak fairness of the specification.              *)

Markers == {"devforge.toml", "package.json", "Cargo.toml"}

DetectDirs == {"/", "/p", "/p/a", "/p/a/b"}

WorkingDir == "/p"

Starts == DetectDirs \cup {"", "a", "a/b"}

DetectTrees ==
    {[p \in DetectDirs \cup placed |-> IF p \in DetectDirs THEN Dir ELSE File(<<>>)] :
        placed \in SUBSET {path_join(d, m) : d \in DetectDirs, m \in Markers}}

InitDetect ==
    /\ tree \in DetectTrees
    /\ run \in {[fn |-> "detect_project", start |-> s, cwd |-> WorkingDir, dir |-> s,
                 kind |-> "none", result |-> "running"] : s \in Starts}
    /\ out = NoTree
    /\ call = NoCall
    /\ ret = Pending
    /\ copy = NoCopy
    /\ pkg = NoPkg
    /\ pkgOut = NoPkg
    /\ edit = NoEdit

DetectIteration ==
    /\ run.fn = "detect_project"
    /\ run.result = "running"
    /\ run' = detect_iteration(tree, run)
    /\ UNCHANGED <<call, ret, tree, out, copy, pkg, pkgOut, edit>>

NextDetect == DetectIteration

SpecDetect == InitDetect /\ [][NextDetect]_vars /\ WF_vars(NextDetect)

---------------------------------------------------------------------------
(* SpecFrame: copy_template and copy_filtered on one file system that      *)
(* holds both roots, one loop iteration per step.  WalkDir reads the       *)
(* content of a directory when the walk enters it, after the iteration on  *)
(* the directory's own entry, and hands the entries over in any order.     *)

\* A variant of dest_root that joins the relative path to the source root.
dest_root_is_source(r) == r.src

\* The root that dest_path = output_path.join(relative_path) is taken from.
dest_root(r) == r.dst

\* Every order in which read_dir may list the entries S of a directory.
Listings(S) ==
    LET n == Cardinality(S)
    IN  {o \in [1..n -> S] : \A i, j \in 1..n : o[i] = o[j] => i = j}

\* The state of the loop on the destination: its tree, relative to the
\* destination root, and what is left of the fault budget.
DestState(fs, r) == [fs |-> Sub(fs, dest_root(r)), err |-> FALSE, budget |-> r.budget]

FrameA == as_bytes("a")

FrameFiles == {File(FrameA), File(TextWithToken)}

\* The content of a source root: a file f, and s as a file or as a
\* directory with or without a file f of its own.
FrameSources ==
    {f \cup g :
        f \in {{}} \cup {{<<"f", e>>} : e \in FrameFiles},
        g \in {{}, {<<"s", Dir>>}} \cup {{<<"s", e>>} : e \in FrameFiles}
                \cup {{<<"s", Dir>>, <<"s/f", e>>} : e \in FrameFiles}}

\* The file system with the source root at src holding content, beside or
\* below a destination root d that exists or not, with or without a file f.
FrameTree(src, content, extra) ==
    LET paths == (Ancestors(src) \ {""}) \cup {src}
                   \cup {Join(src, e[1]) : e \in content} \cup {e[1] : e \in extra}
    IN  [p \in paths |->
            IF \E e \in extra : e[1] = p THEN (CHOOSE e \in extra : e[1] = p)[2]
            ELSE IF \E e \in content : Join(src, e[1]) = p
                 THEN (CHOOSE e \in content : Join(src, e[1]) = p)[2]
            ELSE Dir]

FrameExtras == {{}, {<<"d", Dir>>}, {<<"d", Dir>>, <<"d/f", File(FrameA)>>}}

FrameRoots == {"s", "d/s"}

FrameRules == {<<>>, <<"f">>}

FrameRuns ==
    {[fn |-> fn, src |-> src, dst |-> "d", project_name |-> "my-app",
      files_to_skip |-> rules, extra_skip |-> <<"template.json">>,
      budget |-> budget, todo |-> <<>>, pc |-> "begin", result |-> "running"] :
        fn \in {"copy_template", "copy_filtered"}, src \in FrameRoots,
        rules \in FrameRules, budget \in OrderBudgets}

InitFrame ==
    /\ run \in FrameRuns
    /\ tree \in {FrameTree(run.src, content, extra) :
                    content \in FrameSources, extra \in FrameExtras}
    /\ out = tree
    /\ call = NoCall
    /\ ret = Pending
    /\ copy = NoCopy
    /\ pkg = NoPkg
    /\ pkgOut = NoPkg
    /\ edit = NoEdit

UnusedByFrame == <<call, ret, copy, pkg, pkgOut, edit>>

IsFrameRun == run.fn \in {"copy_template", "copy_filtered"}

\* The loop after an iteration left the result r on the destination: an
\* error returns; otherwise the walk goes on with the entries of the
\* directory it enters now (listed is dir, or "none"), then with the rest.
FrameAdvance(r, rest, listed) ==
    /\ out' = Graft(out, dest_root(run), r.fs)
    /\ IF r.err
       THEN run' = [run EXCEPT !.budget = r.budget, !.pc = "done", !.result = "err"]
       ELSE \E order \in Listings(IF listed = "none" THEN {}
                                  ELSE Children(Sub(out', run.src), listed)) :
               LET todo == order \o rest
               IN  run' = [run EXCEPT !.budget = r.budget, !.todo = todo,
                              !.pc = IF todo = <<>> THEN "done" ELSE "walk",
                              !.result = IF todo = <<>> THEN "ok" ELSE "running"]
    /\ UNCHANGED <<tree, UnusedByFrame>>

\* fs::create_dir_all(output_path), then WalkDir opens the source root.
FrameBegin ==
    /\ IsFrameRun
    /\ run.pc = "begin"
    /\ FrameAdvance(create_dir_all(Sub(out, dest_root(run)), run.budget, ""), <<>>, "")

FrameCopyTemplateEntry ==
    /\ run.fn = "copy_template"
    /\ run.pc = "walk"
    /\ LET p == Head(run.todo)
           t == Sub(out, run.src)
       IN  FrameAdvance(copy_template_entry(t, DestState(out, run), p,
                                            as_bytes(run.project_name),
                                            run.files_to_skip),
                        Tail(run.todo), IF t[p].dir THEN p ELSE "none")

FrameCopyFilteredEntry ==
    /\ run.fn = "copy_filtered"
    /\ run.pc = "walk"
    /\ LET p == Head(run.todo)
           t == Sub(out, run.src)
       IN  FrameAdvance(copy_filtered_entry(t, DestState(out, run), p,
                                            as_bytes(run.project_name),
                                            run.files_to_skip, run.extra_skip),
                        Tail(run.todo), IF t[p].dir THEN p ELSE "none")

NextFrame ==
    \/ FrameBegin
    \/ FrameCopyTemplateEntry
    \/ FrameCopyFilteredEntry

SpecFrame == InitFrame /\ [][NextFrame]_vars

---------------------------------------------------------------------------
(* Claims about the pure functions, checked under SpecPure.                *)

IsSkipCall == call.fn \in {"should_skip_file", "main_should_skip_file"} /\ ret.done

\* C2 (as stated): should_skip_file(path, rules) is true if and only if some
\* rule r has path = r or path starts with r followed by "/"; a sibling that
\* only shares a string prefix with a rule is not excluded.
C2_SegmentAwareMatch ==
    IsSkipCall =>
        ret.value = (\E i \in 1..Len(call.skip_patterns) :
                        \/ call.path = call.skip_patterns[i]
                        \/ starts_with(call.path, call.skip_patterns[i] \o "/"))

\* C3: should_skip_file(path, rules) is true exactly when at least one rule
\* is a raw string prefix of path (an equal rule being a full-length prefix),
\* so it is false for every path under the empty rule list.
C3_RawPrefixMatch ==
    IsSkipCall =>
        /\ ret.value = (\E i \in 1..Len(call.skip_patterns) :
                           /\ Len(call.skip_patterns[i]) <= Len(call.path)
                           /\ \A k \in 1..Len(call.skip_patterns[i]) :
                                 SubSeq(call.path, k, k)
                                     = SubSeq(call.skip_patterns[i], k, k))
        /\ (call.skip_patterns = <<>> => ret.value = FALSE)

\* C3 witness: "docsx/page.md" is skipped by the rule "docs".
C3_Witness ==
    /\ call.fn = "should_skip_file"
    /\ ret.done
    /\ call.path = "docsx/page.md"
    /\ call.skip_patterns = <<"docs">>
    /\ ret.value = TRUE

DocsRules ==
    <<"src/routes/docs", "content/docs", "src/lib/docs.ts", "src/lib/docs.test.ts",
      "src/lib/mdx-components.tsx", "src/components/docs-sidebar.tsx",
      "src/components/copyable-pre.tsx">>

AuthRules == <<"src/lib/auth.ts", "api/auth", "src/components/session-provider.tsx">>

DbRules == <<"src/lib/db.ts">>

WhenOff(toggle, rules) == IF toggle THEN <<>> ELSE rules

\* C4: get_files_to_skip returns the concatenation, in the order docs, auth,
\* db, of the rule lists (7, 3 and 1 rules) of the toggles that are off, and
\* no rule of a toggle that is on.
C4_SkipListOfToggles ==
    (call.fn = "get_files_to_skip" /\ ret.done) =>
        /\ ret.value = WhenOff(call.include_docs, DocsRules)
                           \o WhenOff(call.include_auth, AuthRules)
                           \o WhenOff(call.include_db, DbRules)
        /\ Len(ret.value) = (IF call.include_docs THEN 0 ELSE 7)
                              + (IF call.include_auth THEN 0 ELSE 3)
                              + (IF call.include_db THEN 0 ELSE 1)

\* C4 witness: with every toggle off all 11 rules are returned.
C4_Witness ==
    /\ call.fn = "get_files_to_skip"
    /\ ret.done
    /\ ~call.include_docs /\ ~call.include_auth /\ ~call.include_db
    /\ Len(ret.value) = 11

Elements(v) == {v[i] : i \in 1..Len(v)}

\* C5: get_lib_files_to_skip contains "tsconfig.json" iff lang is
\* "javascript", "src/components" iff react is off, "src/styles" iff css is
\* off, "vitest.config.ts" and "src/__tests__" iff testing is off, and
\* nothing else.
C5_LibSkipList ==
    (call.fn = "get_lib_files_to_skip" /\ ret.done) =>
        /\ Elements(ret.value)
             = (IF call.lang = "javascript" THEN {"tsconfig.json"} ELSE {})
               \cup (IF call.include_react THEN {} ELSE {"src/components"})
               \cup (IF call.include_css THEN {} ELSE {"src/styles"})
               \cup (IF call.include_testing THEN {}
                     ELSE {"vitest.config.ts", "src/__tests__"})
        /\ Cardinality(Elements(ret.value)) = Len(ret.value)
        /\ (call.lang = "typescript" /\ call.include_react /\ call.include_css
               /\ call.include_testing) => ret.value = <<>>

\* C5 witness: a language that is neither typescript nor javascript, with
\* testing off, yields the two testing rules and no tsconfig.json.
C5_Witness ==
    /\ call.fn = "get_lib_files_to_skip"
    /\ ret.done
    /\ call.lang = "python"
    /\ call.include_react /\ call.include_css /\ ~call.include_testing
    /\ ret.value = <<"vitest.config.ts", "src/__tests__">>

\* The positions of content at which the token occurs.
TokenHits(content) ==
    {i \in 1..Len(content) : starts_with(SubSeq(content, i, Len(content)), Token)}

\* content[j] lies inside an occurrence of the token.
InToken(content, j) ==
    \E i \in TokenHits(content) : i <= j /\ j < i + Len(Token)

\* How far the text at position j of content has moved in the result.
Shift(content, name, j) ==
    Cardinality({i \in TokenHits(content) : i < j}) * (Len(name) - Len(Token))

\* result is content with name in place of every occurrence of the token.
NameInPlaceOfToken(content, name, result) ==
    /\ Len(result) = Len(content)
                       + Cardinality(TokenHits(content)) * (Len(name) - Len(Token))
    /\ \A i \in TokenHits(content) :
          SubSeq(result, i + Shift(content, name, i),
                 i + Shift(content, name, i) + Len(name) - 1) = name
    /\ \A j \in 1..Len(content) :
          ~InToken(content, j) => result[j + Shift(content, name, j)] = content[j]

IsSubstring(a, b) ==
    \E i \in 1..(Len(b) + 1) : starts_with(SubSeq(b, i, Len(b)), a)

IsTemplateCall == call.fn = "process_template" /\ ret.done

\* C6 (as stated): for every accepted project name the result of
\* process_template contains zero remaining occurrences of the token.
C6_NoTokenRemains ==
    IsTemplateCall => Occurrences(ret.value, Token) = 0

\* C6 (amended): the result has the project name in place of every occurrence
\* of the token, content without the token is unchanged, and no occurrence of
\* the token remains provided the name is not a contiguous part of the token.
C6_ReplacesEveryToken ==
    IsTemplateCall =>
        /\ NameInPlaceOfToken(call.content, call.project_name, ret.value)
        /\ (TokenHits(call.content) = {} => ret.value = call.content)
        /\ (~IsSubstring(call.project_name, Token)
               => Occurrences(ret.value, Token) = 0)

\* C6 witness: two occurrences replaced by "my-app", none left.
C6_Witness ==
    /\ IsTemplateCall
    /\ call.project_name = as_bytes("my-app")
    /\ Cardinality(TokenHits(call.content)) = 2
    /\ Occurrences(ret.value, as_bytes("my-app")) = 2
    /\ Occurrences(ret.value, Token) = 0

---------------------------------------------------------------------------
(* Claims about materialization, checked under SpecCopy.                   *)

\* The relative paths below the destination root.
Below(fs) == DOMAIN fs \ {""}

\* The source entries copy_template keeps, as the claim names them.
KeptByTemplate ==
    {p \in DOMAIN tree :
        ~should_skip_file(p, copy.files_to_skip) /\ p # "template.json"}

\* C1 (as stated): after copy_template succeeds the relative paths under the
\* destination are exactly the source paths neither skipped by
\* should_skip_file nor equal to "template.json", each of the same kind as
\* in the source.
C1_DestinationIsKeptSet ==
    (copy.loop = "copy_template" /\ copy.result = "ok") =>
        /\ Below(out) = KeptByTemplate
        /\ \A p \in KeptByTemplate : out[p].dir = tree[p].dir

\* C1, away from the reserved name: what copy_template does guarantee.  A
\* directory named template.json is not copied as an entry, and is created
\* only as the parent of a kept file below it.
C1_KeptSetPlusReservedParent ==
    (copy.loop = "copy_template" /\ copy.result = "ok") =>
        /\ Below(out) = KeptByTemplate
               \cup {p \in {"template.json"} :
                        \E q \in KeptByTemplate : p \in Ancestors(q)}
        /\ \A p \in KeptByTemplate : out[p].dir = tree[p].dir

\* The files the loop of the last materialization does not filter out.
NotFiltered ==
    {p \in DOMAIN tree :
        /\ ~tree[p].dir
        /\ ~should_skip_file(p, copy.files_to_skip)
        /\ IF copy.loop = "copy_filtered" THEN ~skip_extra(p, copy.extra_skip)
           ELSE p # "template.json"}

BinaryFilesIdentical ==
    \A p \in NotFiltered :
        ~IsUtf8(tree[p].bytes) => (IsFile(out, p) /\ out[p].bytes = tree[p].bytes)

\* C7 (as stated): in every materialization loop (copy_template,
\* copy_filtered, the copy loop of main) a file whose bytes are not valid
\* UTF-8 arrives at the same relative path with identical bytes.
C7_BinaryCopiedByEveryLoop ==
    (copy.loop \in {"copy_template", "copy_filtered", "main"} /\ copy.result = "ok")
        => BinaryFilesIdentical

\* C7, for the two loops that fall back to fs::copy.
C7_BinaryCopiedByTemplateAndFiltered ==
    (copy.loop \in {"copy_template", "copy_filtered"} /\ copy.result = "ok")
        => BinaryFilesIdentical

---------------------------------------------------------------------------
(* Claims about the manifest editors, checked under SpecManifest.          *)

IsRemovalEdit ==
    edit.editor \in {"update_package_json", "update_lib_package_json"}

\* The removal list of the last edit: the <<section, key>> pairs of the
\* features that are disabled in it.
Removals ==
    IF edit.editor = "update_package_json"
    THEN (IF edit.include_docs THEN {}
          ELSE {<<"dependencies", "@mdx-js/react">>, <<"dependencies", "gray-matter">>,
                <<"devDependencies", "@mdx-js/rollup">>,
                <<"devDependencies", "remark-frontmatter">>,
                <<"devDependencies", "remark-mdx-frontmatter">>})
         \cup (IF edit.include_auth THEN {} ELSE {<<"dependencies", "@auth/core">>})
         \cup (IF edit.include_db THEN {}
               ELSE {<<"dependencies", "pg">>, <<"devDependencies", "@types/pg">>})
    ELSE (IF edit.lang = "javascript" THEN {<<"devDependencies", "typescript">>} ELSE {})
         \cup (IF edit.include_react THEN {}
               ELSE {<<"peerDependencies", "react">>, <<"peerDependencies", "react-dom">>,
                     <<"devDependencies", "@types/react">>,
                     <<"devDependencies", "@types/react-dom">>,
                     <<"devDependencies", "react">>, <<"devDependencies", "react-dom">>})
         \cup (IF edit.include_css THEN {}
               ELSE {<<"dependencies", "tailwindcss">>,
                     <<"dependencies", "@tailwindcss/vite">>,
                     <<"devDependencies", "tailwindcss">>,
                     <<"devDependencies", "@tailwindcss/vite">>})
         \cup (IF edit.include_testing THEN {}
               ELSE {<<"devDependencies", "vitest">>,
                     <<"devDependencies", "@testing-library/react">>,
                     <<"devDependencies", "@testing-library/jest-dom">>,
                     <<"devDependencies", "jsdom">>, <<"scripts", "test">>})

TargetedSections == {r[1] : r \in Removals}

\* The file held a manifest: a JSON object.
HeldManifest(file) ==
    file.fmt \notin {"missing", "malformed", "none"} /\ file.v.t = "obj"

\* section of the written manifest is section of the input manifest less
\* the keys removed from it.
SectionPruned(before, after, section) ==
    IF before.t = "obj"
    THEN /\ after.t = "obj"
         /\ DOMAIN after.m = {k \in DOMAIN before.m : <<section, k>> \notin Removals}
         /\ \A k \in DOMAIN after.m : after.m[k] = before.m[k]
    ELSE after = before

\* C8 (as stated): after update_package_json / update_lib_package_json
\* succeeds on a well-formed manifest, no section holds a key of the removal
\* list of a disabled feature, every other section, key and value of the
\* input is present unchanged, and nothing is added.
C8_OnlyRemovalsNothingAdded ==
    (IsRemovalEdit /\ edit.result = "ok" /\ HeldManifest(pkg)) =>
        /\ HeldManifest(pkgOut)
        /\ DOMAIN pkgOut.v.m = DOMAIN pkg.v.m
        /\ \A section \in DOMAIN pkg.v.m :
              SectionPruned(pkg.v.m[section], pkgOut.v.m[section], section)

\* C9 (as stated): when a section that a removal targets is absent from the
\* input manifest the edit succeeds, the written manifest has exactly the
\* sections of the input, and the absent section is not created.
C9_AbsentSectionNotCreated ==
    (/\ IsRemovalEdit
     /\ edit.result # "pending"
     /\ HeldManifest(pkg)
     /\ \E section \in TargetedSections : section \notin DOMAIN pkg.v.m) =>
        /\ edit.result = "ok"
        /\ HeldManifest(pkgOut)
        /\ DOMAIN pkgOut.v.m = DOMAIN pkg.v.m

\* What the code does for C9: the edit succeeds and every targeted section
\* that was absent is written with the value null.
C9_AbsentSectionWrittenAsNull ==
    (IsRemovalEdit /\ edit.result # "pending" /\ HeldManifest(pkg)) =>
        /\ edit.result = "ok"
        /\ DOMAIN pkgOut.v.m = DOMAIN pkg.v.m \cup TargetedSections
        /\ \A section \in TargetedSections \ DOMAIN pkg.v.m :
              pkgOut.v.m[section] = Null

\* The entries the insertion policy adds to a section in the last edit.
Insertions(section) ==
    IF section = "dependencies"
    THEN (IF edit.include_docs
          THEN {<<"@thesandybridge/ui", "^1.0.0">>, <<"gray-matter", "^4.0.3">>}
          ELSE {})
         \cup (IF edit.include_auth
               THEN {<<"next-auth", "^5.0.0-beta.25">>, <<"@auth/core", "^0.37.4">>,
                     <<"jose", "^6.0.11">>}
               ELSE {})
         \cup (IF edit.include_db THEN {<<"pg", "^8.14.1">>} ELSE {})
    ELSE IF section = "devDependencies" /\ edit.include_db
         THEN {<<"@types/pg", "^8.11.11">>}
         ELSE {}

Inserted(v, section) ==
    /\ section \in DOMAIN v.m
    /\ v.m[section].t = "obj"
    /\ \A e \in Insertions(section) :
          e[1] \in DOMAIN v.m[section].m /\ v.m[section].m[e[1]] = Str(e[2])

\* A targeted section is an object or is missing.
SectionsObjectOrMissing(v) ==
    \A section \in {"dependencies", "devDependencies"} :
        section \in DOMAIN v.m => v.m[section].t = "obj"

\* C10 (as stated): under the insertion policy every enabled feature's
\* entries are inserted with their fixed versions, and a missing
\* "dependencies" (or, for the database feature, "devDependencies") section
\* is created and filled rather than the edit failing.
C10_MissingSectionCreated ==
    (/\ edit.editor = "main_update_package_json"
     /\ edit.result # "pending"
     /\ (edit.include_docs \/ edit.include_auth \/ edit.include_db)
     /\ HeldManifest(pkg)
     /\ SectionsObjectOrMissing(pkg.v)) =>
        /\ edit.result = "ok"
        /\ Inserted(pkgOut.v, "dependencies")
        /\ edit.include_db => Inserted(pkgOut.v, "devDependencies")

\* What the code does for C10: with both sections objects the entries are
\* inserted; with "dependencies" missing, or "devDependencies" missing and
\* the database feature on, the edit fails and the file is left as it was.
C10_InsertsOrFails ==
    (/\ edit.editor = "main_update_package_json"
     /\ edit.result # "pending"
     /\ HeldManifest(pkg)
     /\ SectionsObjectOrMissing(pkg.v)) =>
        IF \/ "dependencies" \notin DOMAIN pkg.v.m
           \/ edit.include_db /\ "devDependencies" \notin DOMAIN pkg.v.m
        THEN edit.result = "err" /\ pkgOut = pkg
        ELSE /\ edit.result = "ok"
             /\ Inserted(pkgOut.v, "dependencies")
             /\ edit.include_db => Inserted(pkgOut.v, "devDependencies")

---------------------------------------------------------------------------
(* Claims about the layout cleanup and the secrets file, checked under     *)
(* SpecFeatures.                                                           *)

\* The lines of a text, each with its line end; the last one may lack it.
RECURSIVE Lines(_)
Lines(text) ==
    IF text = <<>> THEN <<>>
    ELSE LET ends == {i \in 1..Len(text) : text[i] = "\n"}
         IN  IF ends = {} THEN <<text>>
             ELSE LET k == CHOOSE i \in ends : \A j \in ends : i <= j
                  IN  <<SubSeq(text, 1, k)>> \o Lines(SubSeq(text, k + 1, Len(text)))

\* A line that is none of the three exact lines.
IsOtherLine(line) == line \notin {ImportLine, OpenMarker, CloseMarker}

\* Every entry of before but the one at path p is in after, unchanged, and
\* after has no other entry.
SameExceptAt(before, after, p) ==
    /\ DOMAIN after \ {p} = DOMAIN before \ {p}
    /\ \A q \in DOMAIN before \ {p} : after[q] = before[q]

IsCleanupCall == call.fn = "cleanup_layout_for_no_auth" /\ ret.done

\* C11 (as stated): cleanup_layout_for_no_auth deletes the exact import line
\* and the two exact marker lines, keeps every other line unchanged and in
\* order, so that a file with none of the three exact lines stays
\* byte-identical; when the file does not exist it returns Ok and creates
\* nothing.
C11_ExactLinesDeleted ==
    IsCleanupCall =>
        /\ ~Exists(tree, LayoutPath) => (ret.value = "ok" /\ out = tree)
        /\ (IsFile(tree, LayoutPath) /\ ret.value = "ok") =>
              /\ IsFile(out, LayoutPath)
              /\ Lines(out[LayoutPath].bytes)
                   = SelectSeq(Lines(tree[LayoutPath].bytes), IsOtherLine)
              /\ SameExceptAt(tree, out, LayoutPath)

\* What the code does for C11: the three literals are deleted wherever they
\* occur in the text, also as the tail of a longer line.
C11_LiteralsDeletedAnywhere ==
    IsCleanupCall =>
        /\ ~Exists(tree, LayoutPath) => (ret.value = "ok" /\ out = tree)
        /\ (IsFile(tree, LayoutPath) /\ ret.value = "ok") =>
              /\ IsFile(out, LayoutPath)
              /\ \A literal \in {OpenMarker, CloseMarker} :
                    Occurrences(out[LayoutPath].bytes, literal) = 0
              /\ (\A literal \in {ImportLine, OpenMarker, CloseMarker} :
                     Occurrences(tree[LayoutPath].bytes, literal) = 0)
                    => out = tree
              /\ SameExceptAt(tree, out, LayoutPath)
        /\ ret.value = "err" => out = tree

LowerHexValue(c) == CHOOSE d \in 0..15 : LowerHex(d) = c

\* s is the lowercase two-digit hexadecimal encoding of bytes, in order.
IsHexOf(s, bytes) ==
    /\ Len(s) = 64
    /\ Len(bytes) = 32
    /\ \A i \in 1..Len(s) : \E d \in 0..15 : s[i] = LowerHex(d)
    /\ \A i \in 1..Len(bytes) :
          16 * LowerHexValue(s[2 * i - 1]) + LowerHexValue(s[2 * i]) = bytes[i]

\* A line of a .env file that sets a key: not a comment.
IsKeyLine(line) == line[1] # "#"

\* The value of the line "KEY=value\n".
ValueOf(line, key) == SubSeq(line, Len(key) + 2, Len(line) - 1)

\* content is a .env with exactly three key lines: the secret key with the
\* hexadecimal encoding of bytes, and AUTH_GITHUB_ID and AUTH_GITHUB_SECRET
\* with empty values; no line sets DATABASE_URL or JWT_SECRET.
IsGeneratedEnv(content, bytes) ==
    LET lines == Lines(content)
        keys == SelectSeq(lines, IsKeyLine)
    IN  /\ Len(keys) = 3
        /\ starts_with(keys[1], as_bytes("AUTH_SECRET="))
        /\ keys[1][Len(keys[1])] = "\n"
        /\ IsHexOf(ValueOf(keys[1], "AUTH_SECRET"), bytes)
        /\ keys[2] = as_bytes("AUTH_GITHUB_ID=\n")
        /\ keys[3] = as_bytes("AUTH_GITHUB_SECRET=\n")
        /\ \A i \in 1..Len(lines) :
              /\ ~starts_with(lines[i], as_bytes("DATABASE_URL"))
              /\ ~starts_with(lines[i], as_bytes("JWT_SECRET"))

\* C12: generate_random_secret returns the 64 lowercase hexadecimal digits
\* that encode the 32 drawn bytes in order; the .env generate_env_file writes
\* has exactly three key lines, the secret key with that value and
\* AUTH_GITHUB_ID and AUTH_GITHUB_SECRET with empty values, and no
\* DATABASE_URL or JWT_SECRET key.
C12_SecretAndEnvFile ==
    /\ (call.fn = "generate_random_secret" /\ ret.done) =>
          IsHexOf(ret.value, call.bytes)
    /\ (call.fn = "generate_env_file" /\ ret.done /\ ret.value = "ok") =>
          /\ IsFile(out, ".env")
          /\ IsGeneratedEnv(out[".env"].bytes, call.bytes)
          /\ SameExceptAt(tree, out, ".env")

\* C12 witness: a draw with a byte below 16 (a leading zero digit) written
\* over a .env that was there before.
C12_Witness ==
    /\ call.fn = "generate_env_file"
    /\ ret.done
    /\ ret.value = "ok"
    /\ IsFile(tree, ".env")
    /\ call.bytes[1] = 10
    /\ call.bytes[2] = 17
    /\ starts_with(out[".env"].bytes, as_bytes("# Auth (GitHub OAuth)\nAUTH_SECRET=0a11"))

---------------------------------------------------------------------------
(* Claims about scaffold_fullstack, checked under SpecFullstack.           *)

IsFullstackRun == run.fn = "scaffold_fullstack"

\* The steps the run has taken, in order.
StepsTaken == [i \in 1..Len(run.log) |-> run.log[i].step]

Took(step) == \E i \in 1..Len(run.log) : run.log[i].step = step

\* The dependency keys of the docs, auth and database features.
FeatureKeys ==
    {"@mdx-js/react", "gray-matter", "@mdx-js/rollup", "remark-frontmatter",
     "remark-mdx-frontmatter", "@auth/core", "pg", "@types/pg"}

\* No entry of the tree web is at or under a skip path of a feature.
NoFeaturePath(web) ==
    \A p \in DOMAIN web, rule \in Elements(DocsRules \o AuthRules \o DbRules) :
        p # rule /\ ~starts_with(p, rule \o "/")

\* The manifest text names none of the feature keys.
NoFeatureKey(bytes) ==
    \A key \in FeatureKeys : Occurrences(bytes, as_bytes("\"" \o key \o "\"")) = 0

AllFeaturesOff ==
    /\ IsFullstackRun
    /\ run.result = "ok"
    /\ ~run.include_auth
    /\ ~run.include_docs

\* C13 (as stated): after scaffold_fullstack succeeds with auth and docs off
\* (the database is always off), for every template tree, also one with an
\* overlay, web/ has no entry at or under a docs, auth or database skip
\* path, web/package.json has none of their dependency keys, and the run
\* generated no web/.env.
C13_NothingOfDisabledFeatures ==
    AllFeaturesOff =>
        /\ NoFeaturePath(Sub(out, "web"))
        /\ IsFile(out, "web/package.json")
        /\ NoFeatureKey(out["web/package.json"].bytes)
        /\ ~Took("generate_env")
        /\ IsFile(out, "web/.env") => ~IsGeneratedEnv(out["web/.env"].bytes, run.bytes)

\* C13, for templates whose overlay holds nothing for web/: what the steps
\* before the overlay copy removed stays removed.
C13_HoldsWithoutOverlayOfWeb ==
    (AllFeaturesOff /\ ~Exists(tree, "fullstack/web")) =>
        /\ NoFeaturePath(Sub(out, "web"))
        /\ IsFile(out, "web/package.json")
        /\ NoFeatureKey(out["web/package.json"].bytes)
        /\ ~Took("generate_env")
        /\ IsFile(out, "web/.env") => ~IsGeneratedEnv(out["web/.env"].bytes, run.bytes)

\* C14: after scaffold_fullstack succeeds, web/.env has been generated if and
\* only if auth is on; it is generated as the last step, after every copy,
\* so the final web/.env is the fresh secret line with the two empty
\* placeholders, whatever the template or the overlay put at that path.
C14_EnvIffAuth ==
    (IsFullstackRun /\ run.result = "ok") =>
        /\ Took("generate_env") <=> run.include_auth
        /\ run.include_auth =>
              /\ run.log[Len(run.log)].step = "generate_env"
              /\ IsFile(out, "web/.env")
              /\ IsGeneratedEnv(out["web/.env"].bytes, run.bytes)
        /\ (~run.include_auth /\ IsFile(out, "web/.env")) =>
              out["web/.env"].bytes = OldEnv

\* C14 witness: auth on, the template and the overlay both carry a .env, and
\* the final web/.env is the generated one.
C14_Witness ==
    /\ IsFullstackRun
    /\ run.result = "ok"
    /\ run.include_auth
    /\ IsFile(tree, ".env")
    /\ IsFile(tree, "fullstack/web/.env")
    /\ Took("copy_overlay")
    /\ IsGeneratedEnv(out["web/.env"].bytes, run.bytes)

\* The steps a run is to take, in order, for its toggles and its template.
ExpectedSteps ==
    <<"copy_frontend", "update_package_json">>
        \o (IF run.include_auth THEN <<>> ELSE <<"cleanup_layout">>)
        \o (IF IsDir(tree, "fullstack") THEN <<"copy_overlay">> ELSE <<>>)
        \o (IF run.include_auth THEN <<"generate_env">> ELSE <<>>)

\* The steps taken are the first steps of the expected order; only the last
\* step taken may have failed, the run returns the error exactly when it
\* did, and Ok exactly when every expected step was taken without one.
C18_StepsInOrder ==
    IsFullstackRun =>
        /\ Len(run.log) <= Len(ExpectedSteps)
        /\ StepsTaken = SubSeq(ExpectedSteps, 1, Len(run.log))
        /\ \A i \in 1..(Len(run.log) - 1) : ~run.log[i].err
        /\ run.result = "err" <=> (run.log # <<>> /\ run.log[Len(run.log)].err)
        /\ run.result = "ok" <=>
              (Len(run.log) = Len(ExpectedSteps) /\ \A i \in 1..Len(run.log) : ~run.log[i].err)

\* A step is taken only by a run that has not returned, it is the next
\* expected step, and it removes nothing that is already in the output.
C18_StepKeepsWhatIsWritten ==
    IsFullstackRun =>
        /\ run.result = "running"
        /\ Len(run'.log) = Len(run.log) + 1
        /\ DOMAIN out \subseteq DOMAIN out'
        /\ \A p \in DOMAIN out : out'[p].dir = out[p].dir
        /\ tree' = tree

\* C18: scaffold_fullstack takes its steps in the order frontend copy,
\* manifest edit, layout cleanup (auth off), overlay copy (fullstack/
\* exists), .env generation (auth on); after a step returns an error no
\* later step runs and the error is returned; what is already written stays
\* (no retry, no rollback, no cleanup).
C18_OrderedNoRollback ==
    /\ []C18_StepsInOrder
    /\ [][C18_StepKeepsWhatIsWritten]_vars

\* C18 witness: the overlay copy failed after the frontend copy, the manifest
\* edit and the layout cleanup had succeeded; the run returned the error
\* and web/ is still there.
C18_Witness ==
    /\ IsFullstackRun
    /\ run.result = "err"
    /\ StepsTaken = <<"copy_frontend", "update_package_json", "cleanup_layout",
                      "copy_overlay">>
    /\ IsFile(out, "web/package.json")
    /\ IsFile(out, "web/src/routes/__root.tsx")

---------------------------------------------------------------------------
(* Claims about main, init_git and install_deps, checked under SpecMain.   *)

IsMainRun == run.fn = "main"

\* The run is to be refused: the name fails the pattern or the output path
\* exists.
Refused ==
    \/ ~name_regex_is_match(run.project_name)
    \/ Exists(run.before, "")

\* C15: when the project name fails the naming pattern or the output path
\* already exists, main aborts with an error before any file system
\* mutation: no temporary directory, no clone, nothing created or written
\* at the output path.
C15_RefusedBeforeAnyMutation ==
    (IsMainRun /\ Refused) =>
        /\ out = run.before
        /\ run.temp = NoTree
        /\ \A step \in {"tempdir", "clone", "copy", "update_package_json", "git",
                        "install"} : ~Took(step)
        /\ run.log # <<>> => (run.result = "err" /\ StepsTaken = <<"validate">>)

\* C15 witness: an accepted name, an output path that holds a file already,
\* and the run has returned the error.
C15_Witness ==
    /\ IsMainRun
    /\ run.project_name = "my-app"
    /\ IsFile(run.before, "keep")
    /\ run.result = "err"
    /\ out = run.before

BestEffortSteps == {"git", "install", "init_git", "install_deps"}

\* C16 (as stated), the results: no best-effort step, whatever the outcomes
\* of its commands, returns an error, and in main the installation still
\* runs after the git commands.
C16_NeverFails ==
    /\ \A i \in 1..Len(run.log) :
          run.log[i].step \in BestEffortSteps => ~run.log[i].err
    /\ (run.fn \in {"init_git", "install_deps"} /\ run.result # "running")
          => run.result = "ok"
    /\ (IsMainRun /\ Took("git") /\ ~run.no_install)
          => (Took("install") \/ (run.result = "running" /\ run.pc = "install"))

\* C16 (as stated), the tree: a best-effort step leaves every entry that is
\* already scaffolded as it is.
C16_TreeKept ==
    run'.log[Len(run'.log)].step \in BestEffortSteps =>
        \A p \in DOMAIN out : p \in DOMAIN out' /\ out'[p] = out[p]

\* C16 (as stated): a failure of git init/add/commit or of the dependency
\* installation, whether the program cannot be started or exits with a
\* non-zero status, never makes the scaffold fail: no error is returned, the
\* remaining steps run, and the scaffolded tree is unchanged.
C16_BestEffortNeverFails ==
    /\ []C16_NeverFails
    /\ [][C16_TreeKept]_vars

\* What the code does for C16: a non-zero exit status never fails a step and
\* neither does anything in the installation, but a git command that cannot
\* be started returns its error from init_git and from main.
C16_OnlyUnstartedGitFails ==
    \A i \in 1..Len(run.log) :
        LET entry == run.log[i]
        IN  /\ entry.step \in {"install", "install_deps"} => ~entry.err
            /\ entry.step \in {"git", "init_git"} =>
                  (entry.err <=> \E k \in 1..3 : entry.outcomes[k] = "spawn_failed")


---------------------------------------------------------------------------
(* Claims about detect_project, checked under SpecDetect.                  *)

IsDetectRun == run.fn = "detect_project"

\* start and its ancestors, as Path::ancestors lists them: the path itself
\* and every prefix of it that ends where a component ends.
SelfAndAncestors(start) ==
    {start}
      \cup {SubSeq(start, 1, i - 1) : i \in Slashes(start) \ {1}}
      \cup (IF starts_with(start, "/") THEN {"/"} ELSE {""})

\* The place in the file system the path d names.
Located(d, cwd) ==
    IF starts_with(d, "/") THEN d
    ELSE IF d = "" THEN cwd
    ELSE cwd \o "/" \o d

Contains(d, cwd, marker) ==
    LET at == Located(d, cwd)
    IN  (IF at = "/" THEN "/" \o marker ELSE at \o "/" \o marker) \in DOMAIN tree

IsProjectRoot(d, cwd) == \E m \in Markers : Contains(d, cwd, m)

ProjectRoots(start, cwd) == {d \in SelfAndAncestors(start) : IsProjectRoot(d, cwd)}

KindBy(d, cwd) ==
    IF Contains(d, cwd, "devforge.toml") THEN "Fullstack"
    ELSE IF Contains(d, cwd, "package.json") THEN "Frontend"
    ELSE "Rust"

\* C17 (result): a finished detect_project returned an error exactly when
\* neither start nor one of its ancestors contains a marker file; otherwise
\* it returned the nearest such directory (the longest path among them)
\* with the kind given by devforge.toml > package.json > Cargo.toml.
C17_NearestRootAndKind ==
    (IsDetectRun /\ run.result # "running") =>
        LET roots == ProjectRoots(run.start, run.cwd)
        IN  /\ run.result = "err" <=> roots = {}
            /\ run.result = "ok" =>
                  /\ run.dir \in roots
                  /\ \A d \in roots : Len(d) <= Len(run.dir)
                  /\ run.kind = KindBy(run.dir, run.cwd)

\* C17 (progress): every loop iteration either returns or strictly shortens
\* the path.
C17_ReturnsOrShortens ==
    (IsDetectRun /\ run.result = "running") =>
        \/ run'.result # "running"
        \/ Len(run'.dir) < Len(run.dir)

C17_Returned == IsDetectRun /\ run.result # "running"

\* C17: detect_project returns the nearest directory among start and its
\* ancestors that contains a marker file, with the kind chosen by priority,
\* an error if and only if there is none, and it terminates for every start
\* path because each iteration returns or strictly shortens the path.
C17_DetectNearestAndTerminates ==
    /\ []C17_NearestRootAndKind
    /\ [][C17_ReturnsOrShortens]_vars
    /\ <>C17_Returned

\* C17 witness: the walk went up from start to a directory that holds both
\* package.json and Cargo.toml while a farther ancestor holds devforge.toml:
\* the nearer directory is returned, as a Frontend project.
C17_Witness ==
    /\ IsDetectRun
    /\ run.result = "ok"
    /\ run.start = "/p/a/b"
    /\ run.dir = "/p/a"
    /\ run.kind = "Frontend"
    /\ {"/p/a/package.json", "/p/a/Cargo.toml", "/p/devforge.toml"} \subseteq DOMAIN tree


---------------------------------------------------------------------------
(* Claims about the order of enumeration, checked under SpecOrder.         *)

IsOrderedCopy == copy.loop = "copy_template" /\ copy.result # "pending"

\* One walk of the tree, a directory before its content.
RECURSIVE WalkOf(_, _)
WalkOf(t, siblings) ==
    IF siblings = {} THEN <<>>
    ELSE LET c == CHOOSE e \in siblings : TRUE
         IN  <<c>> \o WalkOf(t, Children(t, c)) \o WalkOf(t, siblings \ {c})

\* What copy_template leaves when the entries come as WalkDir yields them,
\* a directory before its content, and no operation fails.
WalkResult ==
    LET order == WalkOf(tree, Children(tree, ""))
    IN  copy_template(tree, NoTree, NoFault, order,
                      as_bytes(copy.project_name), copy.files_to_skip)

Position(order, p) == CHOOSE i \in 1..Len(order) : order[i] = p

\* C19: whatever the order in which the entries of the source tree are
\* enumerated, copy_template succeeds when no file system operation fails,
\* and every run that succeeds leaves the destination tree that the walk of
\* WalkDir leaves.
C19_OrderIndependent ==
    IsOrderedCopy =>
        /\ copy.budget = NoFault => copy.result = "ok"
        /\ copy.result = "ok" => out = WalkResult.fs
        /\ ~WalkResult.err

\* C19 witness: a file was handed to copy_template before the entry of its
\* own directory, was copied, and the run succeeded.
C19_Witness ==
    /\ IsOrderedCopy
    /\ copy.result = "ok"
    /\ IsDir(tree, "a") /\ IsFile(tree, "a/f")
    /\ Position(copy.order, "a/f") < Position(copy.order, "a")
    /\ IsFile(out, "a/f")
    /\ IsFile(tree, "ab")


---------------------------------------------------------------------------
(* Claims about a manifest that cannot be read or parsed, checked under    *)
(* SpecManifest, and under SpecFullstack for the files beside it.          *)

Unreadable == {Missing, Malformed}

\* C20: when package.json is missing or is not well-formed JSON,
\* update_package_json and update_lib_package_json return an error and
\* write nothing: the file is as before the call (still missing, or with
\* its content unchanged), whatever the toggles.
C20_ErrorAndNothingWritten ==
    (IsRemovalEdit /\ pkg \in Unreadable /\ edit.result # "pending") =>
        /\ edit.result = "err"
        /\ pkgOut = pkg

\* C20 witness: update_lib_package_json, with a language and toggles that
\* make it remove dependencies, met a malformed manifest and returned the
\* error; update_package_json likewise met a missing one in another run.
C20_Witness ==
    \/ /\ edit.editor = "update_lib_package_json"
       /\ edit.lang = "javascript"
       /\ ~edit.include_react
       /\ pkg = Malformed
       /\ edit.result = "err"
       /\ pkgOut = Malformed
    \/ /\ edit.editor = "update_package_json"
       /\ ~edit.include_docs
       /\ pkg = Missing
       /\ edit.result = "err"
       /\ pkgOut = Missing

\* C20 (the files beside the manifest, under SpecFullstack): the step
\* update_package_json of scaffold_fullstack, on a tree whose web/package.json
\* is missing or malformed, fails and leaves every file of the output tree
\* as it was.
C20_OutputTreeKept ==
    [][(AtStep("update_package_json")
          /\ (~IsFile(out, "web/package.json")
                \/ out["web/package.json"].bytes = MalformedBytes))
        => (out' = out /\ run'.result = "err")]_vars


---------------------------------------------------------------------------
(* Claims about the source tree of a materialization, checked under        *)
(* SpecFrame.                                                              *)

Inside(p, root) == p = root \/ starts_with(p, root \o "/")

\* The source root and everything under it is as it was at the call.
SourceAsBefore ==
    /\ \A p \in DOMAIN tree : Inside(p, run.src) => (p \in DOMAIN out /\ out[p] = tree[p])
    /\ \A p \in DOMAIN out : Inside(p, run.src) => p \in DOMAIN tree

\* What this step created or wrote lies at or under the destination root.
WritesUnderDestination ==
    \A p \in DOMAIN out' : (p \notin DOMAIN out \/ out'[p] # out[p]) => Inside(p, run.dst)

---------------------------------------------------------------------------
(* Claims about repeated manifest edits, checked under SpecTwice.          *)

IsRepeatedEdit == IsRemovalEdit /\ "runs" \in DOMAIN edit

\* No key of the removal list is in the manifest v.
HoldsNoTargetedKey(v) ==
    \A r \in Removals :
        ~(r[1] \in DOMAIN v.m /\ v.m[r[1]].t = "obj" /\ r[2] \in DOMAIN v.m[r[1]].m)

\* C22 (idempotence): from the second run on, a run leaves the manifest file
\* exactly as the first run left it.
C22_SecondRunChangesNothing ==
    (IsRepeatedEdit /\ HeldManifest(pkg) /\ edit.runs >= 2) =>
        /\ edit.result = "ok"
        /\ pkgOut = edit.first

\* C22 (absent keys): on a manifest that holds none of the keys to remove,
\* with or without the targeted sections, the run succeeds and the removal
\* is ignored: the manifest written is the manifest read.
C22_AbsentKeysIgnored ==
    (IsRepeatedEdit /\ HeldManifest(pkg) /\ edit.runs >= 1 /\ HoldsNoTargetedKey(pkg.v)) =>
        /\ edit.result = "ok"
        /\ edit.first.v = pkg.v

\* C22: for every well-formed manifest, one that lacks a targeted section or
\* the targeted keys included, and every toggle combination, running the
\* editor twice leaves the manifest file exactly as running it once does,
\* and removing a key that is not present is silently ignored.
C22_IdempotentAndAbsentIgnored ==
    C22_SecondRunChangesNothing /\ C22_AbsentKeysIgnored

\* What the code does for C22: removal is idempotent for every file, and
\* absent keys are ignored when every targeted section is in the manifest;
\* a targeted section that is absent is written as null by the first run.
C22_IgnoredWhenSectionsPresent ==
    /\ (IsRepeatedEdit /\ edit.runs >= 2) => pkgOut = edit.first
    /\ (IsRepeatedEdit /\ HeldManifest(pkg) /\ edit.runs >= 1
          /\ HoldsNoTargetedKey(pkg.v)) =>
            /\ edit.result = "ok"
            /\ DOMAIN edit.first.v.m = DOMAIN pkg.v.m \cup TargetedSections
            /\ \A section \in DOMAIN pkg.v.m : edit.first.v.m[section] = pkg.v.m[section]
            /\ \A section \in TargetedSections \ DOMAIN pkg.v.m :
                  edit.first.v.m[section] = Null

=============================================================================
